---- MODULE Spec2Model ----
(***************************************************************************)
(* nav-profile: airspace query engine and flight profile analyzer.         *)
(*                                                                         *)
(* Geometry is kept on a planar integer grid: one grid unit is 10 m, so    *)
(* 1 km = 100 units, latitude and longitude share the unit, and the        *)
(* great-circle distance between two points of the same latitude is the    *)
(* difference of their longitudes.  Flight paths run along one parallel    *)
(* (RouteLat); altitudes are whole feet.  Interpolated positions and       *)
(* altitudes are exact rationals (numerator, denominator).                 *)
(* An absent value (Python None, SQL NULL) is the empty sequence <<>>, a   *)
(* present value v is <<v>>.                                               *)
(***************************************************************************)
EXTENDS Integers, Sequences, FiniteSets, TLC

(***************************************************************************)
(* Small helpers                                                           *)
(***************************************************************************)
None == <<>>

Some(v) == <<v>>

Abs(n) == IF n < 0 THEN -n ELSE n

Max2(a, b) == IF a >= b THEN a ELSE b

Min2(a, b) == IF a <= b THEN a ELSE b

RECURSIVE SeqMin(_)
SeqMin(s) == IF Len(s) = 1 THEN s[1] ELSE Min2(s[1], SeqMin(Tail(s)))

RECURSIVE SeqMax(_)
SeqMax(s) == IF Len(s) = 1 THEN s[1] ELSE Max2(s[1], SeqMax(Tail(s)))

SetMin(S) == CHOOSE x \in S : \A y \in S : x <= y

RECURSIVE Concat(_)
Concat(ss) == IF ss = <<>> THEN <<>> ELSE Head(ss) \o Concat(Tail(ss))

(* Python truthiness of a nullable number: None and 0 are both falsy.      *)
Truthy(opt) == opt # None /\ opt[1] # 0

(***************************************************************************)
(* Program constants                                                       *)
(***************************************************************************)
NUM_POINTS == 32

TRACE_THRESHOLD == 50

TRACE_TARGET_POINTS == 1000

CORRIDOR_ONLY_INDEX == 999999

FL_FACTOR == 100

INTERMEDIATE_LEVELS_ABOVE == 500

(* cos(2*pi*i/32) and sin(2*pi*i/32), i = 0..31, times 100 and rounded:    *)
(* with 1 km = 100 grid units, radius_km * table[i] is the offset in grid  *)
(* units.                                                                  *)
QuarterTable == <<100, 98, 92, 83, 71, 56, 38, 20, 0>>

CosTimes100(i) ==
    LET k == i % NUM_POINTS
    IN  IF k <= 8 THEN QuarterTable[k + 1]
        ELSE IF k <= 16 THEN -QuarterTable[16 - k + 1]
        ELSE IF k <= 24 THEN -QuarterTable[k - 16 + 1]
        ELSE QuarterTable[32 - k + 1]

SinTimes100(i) == CosTimes100(i + 24)

(***************************************************************************)
(* The airspace store (sqlite tables airspaces, airspace_borders,          *)
(* border_vertices, vertical_limits), nested: store[id] is the airspaces   *)
(* row of that id with its border rows (in border id order), their vertex  *)
(* rows (in insertion order) and its vertical_limits rows.                 *)
(***************************************************************************)
Vertex(seq, lon, lat) == [sequence_number |-> seq, latitude |-> lat, longitude |-> lon]

PolygonBorder(verts) ==
    [is_circle |-> FALSE, circle_center_lat |-> None, circle_center_lon |-> None,
     circle_radius_km |-> None, vertices |-> verts]

CircleBorder(lon, lat, radius_km) ==
    [is_circle |-> TRUE, circle_center_lat |-> Some(lat), circle_center_lon |-> Some(lon),
     circle_radius_km |-> Some(radius_km), vertices |-> <<>>]

RectBorder(x1, y1, x2, y2) ==
    PolygonBorder(<<Vertex(1, x1, y1), Vertex(2, x2, y1), Vertex(3, x2, y2), Vertex(4, x1, y2)>>)

Limits(lo, loRef, up, upRef) ==
    [lower_limit_ft |-> lo, lower_limit_ref |-> loRef,
     upper_limit_ft |-> up, upper_limit_ref |-> upRef]

Airspace(type, class, borders, limits) ==
    [code_type |-> type, airspace_class |-> class, borders |-> borders,
     vertical_limits |-> limits]

(***************************************************************************)
(* FixedAirspaceQueryEngine: geometry                                      *)
(***************************************************************************)
RECURSIVE InsertBySequence(_, _)
InsertBySequence(row, sorted) ==
    IF sorted = <<>> THEN <<row>>
    ELSE IF row.sequence_number < Head(sorted).sequence_number
         THEN <<row>> \o sorted
         ELSE <<Head(sorted)>> \o InsertBySequence(row, Tail(sorted))

(* SELECT ... FROM border_vertices WHERE border_id = ? ORDER BY sequence_number *)
RECURSIVE OrderBySequenceNumber(_)
OrderBySequenceNumber(rows) ==
    IF rows = <<>> THEN <<>>
    ELSE InsertBySequence(rows[Len(rows)], OrderBySequenceNumber(SubSeq(rows, 1, Len(rows) - 1)))

(* _generate_circle_vertices: num_points (lon, lat) pairs around the centre *)
GenerateCircleVertices(center_lat, center_lon, radius_km, num_points) ==
    [i \in 1..num_points |->
        <<center_lon + radius_km * CosTimes100(i - 1),
          center_lat + radius_km * SinTimes100(i - 1)>>]

(* the rows of one polygon border that pass "if latitude and longitude"     *)
RECURSIVE KeptVertices(_)
KeptVertices(rows) ==
    IF rows = <<>> THEN <<>>
    ELSE (IF Head(rows).latitude # 0 /\ Head(rows).longitude # 0
          THEN <<(<<Head(rows).longitude, Head(rows).latitude>>)>>
          ELSE <<>>) \o KeptVertices(Tail(rows))

BorderVertices(border) ==
    IF border.is_circle
    THEN IF Truthy(border.circle_center_lat) /\ Truthy(border.circle_center_lon)
            /\ Truthy(border.circle_radius_km)
         THEN GenerateCircleVertices(border.circle_center_lat[1], border.circle_center_lon[1],
                                     border.circle_radius_km[1], NUM_POINTS)
         ELSE <<>>
    ELSE KeptVertices(OrderBySequenceNumber(border.vertices))

(* _get_airspace_vertices: the vertices of every border, appended to one list *)
GetAirspaceVertices(db, airspace_id) ==
    Concat([b \in 1..Len(db[airspace_id].borders) |-> BorderVertices(db[airspace_id].borders[b])])

(* the rows of the SELECT DISTINCT of _build_spatial_index: airspaces joined *)
(* to a border that is joined to at least one border_vertices row           *)
HasVertexRow(db, airspace_id) ==
    \E b \in 1..Len(db[airspace_id].borders) : db[airspace_id].borders[b].vertices # <<>>

(* variant: a box collapsed onto its south-west corner                      *)
BoundingBoxCollapsed(vertices) ==
    LET lons == [i \in 1..Len(vertices) |-> vertices[i][1]]
        lats == [i \in 1..Len(vertices) |-> vertices[i][2]]
    IN  [min_lon |-> SeqMin(lons), max_lon |-> SeqMin(lons),
         min_lat |-> SeqMin(lats), max_lat |-> SeqMin(lats)]

(* min and max of the longitudes and of the latitudes of the vertices       *)
BoundingBox(vertices) ==
    LET lons == [i \in 1..Len(vertices) |-> vertices[i][1]]
        lats == [i \in 1..Len(vertices) |-> vertices[i][2]]
    IN  [min_lon |-> SeqMin(lons), max_lon |-> SeqMax(lons),
         min_lat |-> SeqMin(lats), max_lat |-> SeqMax(lats)]

IsIndexed(db, airspace_id) ==
    /\ HasVertexRow(db, airspace_id)
    /\ Len(GetAirspaceVertices(db, airspace_id)) >= 3

RECURSIVE IndexedIdsFrom(_, _)
IndexedIdsFrom(db, airspace_id) ==
    IF airspace_id > Len(db) THEN <<>>
    ELSE (IF IsIndexed(db, airspace_id) THEN <<airspace_id>> ELSE <<>>)
         \o IndexedIdsFrom(db, airspace_id + 1)

(* _build_spatial_index: airspace_ids, bounding_boxes (parallel lists) and  *)
(* airspace_geometries (one ring per indexed airspace)                      *)
BuildSpatialIndex(db) ==
    LET ids == IndexedIdsFrom(db, 1)
    IN  [airspace_ids |-> ids,
         bounding_boxes |-> [k \in 1..Len(ids) |-> BoundingBox(GetAirspaceVertices(db, ids[k]))],
         airspace_geometries |-> [k \in 1..Len(ids) |-> GetAirspaceVertices(db, ids[k])]]

(***************************************************************************)
(* Points: x = xn / d (longitude), y (latitude), d >= 1.                    *)
(***************************************************************************)
Pt(x, y) == [xn |-> x, d |-> 1, y |-> y]

(* STRtree.query(point): the boxes the point touches, boundary included     *)
BoxHasPoint(box, p) ==
    /\ box.min_lon * p.d <= p.xn
    /\ p.xn <= box.max_lon * p.d
    /\ box.min_lat <= p.y
    /\ p.y <= box.max_lat

(* p lies on the closed segment a-b                                         *)
OnSegment(p, a, b) ==
    /\ (b[1] - a[1]) * (p.y - a[2]) * p.d = (b[2] - a[2]) * (p.xn - a[1] * p.d)
    /\ Min2(a[1], b[1]) * p.d <= p.xn
    /\ p.xn <= Max2(a[1], b[1]) * p.d
    /\ Min2(a[2], b[2]) <= p.y
    /\ p.y <= Max2(a[2], b[2])

(* the ray from p towards +x crosses the segment a-b (half-open in y)       *)
RayCrosses(p, a, b) ==
    /\ (a[2] > p.y) # (b[2] > p.y)
    /\ IF b[2] > a[2]
       THEN (p.xn - a[1] * p.d) * (b[2] - a[2]) < p.d * (p.y - a[2]) * (b[1] - a[1])
       ELSE (p.xn - a[1] * p.d) * (b[2] - a[2]) > p.d * (p.y - a[2]) * (b[1] - a[1])

RingNext(ring, i) == ring[(i % Len(ring)) + 1]

(* Polygon(ring).contains(point): interior only, even-odd over the ring     *)
(* closed from its last vertex back to its first                            *)
RingContains(ring, p) ==
    /\ \A i \in 1..Len(ring) : ~OnSegment(p, ring[i], RingNext(ring, i))
    /\ Cardinality({i \in 1..Len(ring) : RayCrosses(p, ring[i], RingNext(ring, i))}) % 2 = 1

(***************************************************************************)
(* FixedAirspaceQueryEngine: vertical limits                                *)
(* A converted limit is [inf |-> TRUE] (float('inf')) or a number of feet.  *)
(***************************************************************************)
Feet(v) == [inf |-> FALSE, v |-> v]

Infinity == [inf |-> TRUE, v |-> 0]

(* _convert_altitude_to_feet(value, reference)                              *)
ConvertAltitudeToFeet(value, reference) ==
    IF value = None
    THEN IF reference = Some("FT") THEN Feet(0) ELSE Infinity
    ELSE IF reference = Some("FL") THEN Feet(value[1] * FL_FACTOR)
    ELSE Feet(value[1])

(* the row of airspaces LEFT JOIN vertical_limits that fetchone() returns   *)
VerticalRow(db, airspace_id) ==
    IF db[airspace_id].vertical_limits = <<>>
    THEN [lower_limit_ft |-> None, lower_limit_ref |-> None,
          upper_limit_ft |-> None, upper_limit_ref |-> None]
    ELSE db[airspace_id].vertical_limits[1]

(* _get_airspace_data                                                       *)
GetAirspaceData(db, airspace_id) ==
    LET row == VerticalRow(db, airspace_id)
    IN  [id |-> airspace_id,
         code_type |-> db[airspace_id].code_type,
         airspace_class |-> db[airspace_id].airspace_class,
         lower_limit_ft |-> row.lower_limit_ft,
         upper_limit_ft |-> row.upper_limit_ft,
         lower_limit_ref |-> row.lower_limit_ref,
         upper_limit_ref |-> row.upper_limit_ref,
         lower_limit_ft_converted |-> ConvertAltitudeToFeet(row.lower_limit_ft, row.lower_limit_ref),
         upper_limit_ft_converted |-> ConvertAltitudeToFeet(row.upper_limit_ft, row.upper_limit_ref)]

(* altitudes are rationals n / d                                            *)
Alt(ft) == [n |-> ft, d |-> 1]

(* _altitude_in_range: lower_ft <= altitude_ft <= upper_ft                  *)
(* variant: the upper bound taken as exclusive                              *)
AltitudeInRangeExclusive(altitude_ft, airspace_data) ==
    LET lower_ft == airspace_data.lower_limit_ft_converted
        upper_ft == airspace_data.upper_limit_ft_converted
    IN  /\ ~lower_ft.inf
        /\ lower_ft.v * altitude_ft.d <= altitude_ft.n
        /\ (upper_ft.inf \/ altitude_ft.n < upper_ft.v * altitude_ft.d)

AltitudeInRange(altitude_ft, airspace_data) ==
    LET lower_ft == airspace_data.lower_limit_ft_converted
        upper_ft == airspace_data.upper_limit_ft_converted
    IN  /\ ~lower_ft.inf
        /\ lower_ft.v * altitude_ft.d <= altitude_ft.n
        /\ (upper_ft.inf \/ altitude_ft.n <= upper_ft.v * altitude_ft.d)

(* stages 1-3 of query_airspaces_for_point for the k-th indexed airspace    *)
IndexEntryMatches(db, index, k, p, altitude_ft) ==
    /\ BoxHasPoint(index.bounding_boxes[k], p)
    /\ RingContains(index.airspace_geometries[k], p)
    /\ AltitudeInRange(altitude_ft, GetAirspaceData(db, index.airspace_ids[k]))

RECURSIVE MatchingIdsFrom(_, _, _, _, _)
MatchingIdsFrom(db, index, k, p, altitude_ft) ==
    IF k > Len(index.airspace_ids) THEN <<>>
    ELSE (IF IndexEntryMatches(db, index, k, p, altitude_ft)
          THEN <<index.airspace_ids[k]>> ELSE <<>>)
         \o MatchingIdsFrom(db, index, k + 1, p, altitude_ft)

(* query_airspaces_for_point: the ids of the returned airspaces, in index   *)
(* order; empty when there is no spatial index                              *)
QueryAirspacesForPoint(db, index, p, altitude_ft) ==
    IF Len(index.bounding_boxes) = 0 THEN <<>>
    ELSE MatchingIdsFrom(db, index, 1, p, altitude_ft)


(***************************************************************************)
(* Flight paths (the coordinates parse_kml_coordinates returns for a KML   *)
(* file).  A path is either an explicit waypoint list (kind "list") or n   *)
(* equally spaced waypoints x0, x0 + dx, ... at one altitude (kind "gen"). *)
(* Waypoints and samples are indexed from 0, as in the code.               *)
(***************************************************************************)
RouteLat == 1000

Wp(x, alt) == [x |-> x, alt |-> alt]

ListPath(pts) == [kind |-> "list", pts |-> pts, n |-> Len(pts), x0 |-> 0, dx |-> 0, alt |-> 0]

GenPath(n, x0, dx, alt) == [kind |-> "gen", pts |-> <<>>, n |-> n, x0 |-> x0, dx |-> dx, alt |-> alt]

Waypoint(path, i) ==
    IF path.kind = "list" THEN path.pts[i + 1]
    ELSE Wp(path.x0 + i * path.dx, path.alt)

(* v + num / den as a rational in lowest-effort form: whole when it is one  *)
RatAdd(v, num, den) ==
    IF num % den = 0 THEN [n |-> v + (num \div den), d |-> 1]
    ELSE [n |-> v * den + num, d |-> den]

(* v + j * delta / n, the quotient and the remainder of delta by n taken    *)
(* apart so that no product exceeds the machine integers of the checker     *)
RatAlong(v, j, delta, n) == RatAdd(v + j * (delta \div n), j * (delta % n), n)

SampleOf(x, alt) == [p |-> [xn |-> x.n, d |-> x.d, y |-> RouteLat], alt |-> alt]

WaypointSample(w) == SampleOf(RatAdd(w.x, 0, 1), Alt(w.alt))

(* haversine_distance between two waypoints of the route's parallel         *)
HaversineDistance(w1, w2) == Abs(w2.x - w1.x)

(* KMLFlightPathParser.is_trace_file                                        *)
IsTraceFile(path) == path.n > TRACE_THRESHOLD

(***************************************************************************)
(* interpolation.py                                                        *)
(***************************************************************************)
(* _determine_altitude_profile(alt1, alt2, segment_index, all_coordinates)  *)
DetermineAltitudeProfile(alt1, alt2, segment_index, path) ==
    LET alt_change == Abs(alt2 - alt1)
    IN  IF alt_change < 100 THEN "linear"
        ELSE IF alt_change <= 800 THEN "linear"
        ELSE IF path.n >= segment_index + 3 THEN "stepped"
        ELSE "linear"

(* _interpolate_altitude_with_constraints at ratio = j / num_segments       *)
InterpolateAltitudeWithConstraints(alt1, alt2, j, num_segments, profile_type) ==
    IF profile_type = "constrained"
    THEN IF 10 * j < 8 * num_segments THEN Alt(alt1)
         ELSE RatAdd(alt1, (10 * j - 8 * num_segments) * (alt2 - alt1), 2 * num_segments)
    ELSE IF profile_type = "stepped"
    THEN IF 10 * j < 3 * num_segments
         THEN RatAdd(alt1, 10 * j * (alt2 - alt1), 3 * num_segments)
         ELSE Alt(alt2)
    ELSE RatAlong(alt1, j, alt2 - alt1, num_segments)

(* the number of points segment k of the route appends: its start point     *)
(* and the interior points j = 1 .. num_segments - 1                        *)
SegmentPoints(path, k, segment_distance_km) ==
    LET distance_km == HaversineDistance(Waypoint(path, k), Waypoint(path, k + 1))
    IN  IF distance_km <= segment_distance_km THEN 1
        ELSE Max2(1, distance_km \div segment_distance_km)

RECURSIVE PointsBefore(_, _, _)
PointsBefore(path, k, segment_distance_km) ==
    IF k = 0 THEN 0
    ELSE PointsBefore(path, k - 1, segment_distance_km)
         + SegmentPoints(path, k - 1, segment_distance_km)

(* len(interpolate_flight_path(coordinates, segment_distance_km))           *)
InterpolatedCount(path, segment_distance_km) ==
    IF path.n < 2 THEN path.n
    ELSE PointsBefore(path, path.n - 1, segment_distance_km) + 1

(* point j of segment k                                                     *)
SegmentPoint(path, k, j, segment_distance_km) ==
    LET w1 == Waypoint(path, k)
        w2 == Waypoint(path, k + 1)
        num_segments == SegmentPoints(path, k, segment_distance_km)
        profile == DetermineAltitudeProfile(w1.alt, w2.alt, k, path)
    IN  IF j = 0 THEN WaypointSample(w1)
        ELSE SampleOf(RatAlong(w1.x, j, w2.x - w1.x, num_segments),
                      InterpolateAltitudeWithConstraints(w1.alt, w2.alt, j, num_segments, profile))

RECURSIVE InterpolatedFrom(_, _, _, _)
InterpolatedFrom(path, k, i, segment_distance_km) ==
    IF k >= path.n - 1 THEN WaypointSample(Waypoint(path, path.n - 1))
    ELSE IF i < SegmentPoints(path, k, segment_distance_km)
    THEN SegmentPoint(path, k, i, segment_distance_km)
    ELSE InterpolatedFrom(path, k + 1, i - SegmentPoints(path, k, segment_distance_km),
                          segment_distance_km)

(* interpolate_flight_path(coordinates, segment_distance_km)[i]             *)
InterpolatedPoint(path, i, segment_distance_km) ==
    IF path.n < 2 THEN WaypointSample(Waypoint(path, i))
    ELSE InterpolatedFrom(path, 0, i, segment_distance_km)

(***************************************************************************)
(* FlightProfileAnalyzer: the samples (interpolated_points)                *)
(***************************************************************************)
SampleFactor(path) == Max2(1, path.n \div TRACE_TARGET_POINTS)

(* len(waypoints[::sample_factor])                                          *)
ThinnedCount(path) == (path.n + SampleFactor(path) - 1) \div SampleFactor(path)

SampleCount(path, sample_distance_km) ==
    IF IsTraceFile(path) THEN ThinnedCount(path)
    ELSE InterpolatedCount(path, sample_distance_km)

SamplePoint(path, i, sample_distance_km) ==
    IF IsTraceFile(path) THEN WaypointSample(Waypoint(path, i * SampleFactor(path)))
    ELSE InterpolatedPoint(path, i, sample_distance_km)

(* the index in the waypoint list of the sample's waypoint (traces)         *)
SampleSourceIndex(path, i) == i * SampleFactor(path)

(***************************************************************************)
(* FlightProfileAnalyzer._generate_corridor_points                         *)
(***************************************************************************)
(* _calculate_bearing between two samples of the same latitude: 90 east,    *)
(* 270 west, 0 when the two coincide                                        *)
CalculateBearing(s1, s2) ==
    IF s2.p.xn * s1.p.d > s1.p.xn * s2.p.d THEN 90
    ELSE IF s2.p.xn * s1.p.d < s1.p.xn * s2.p.d THEN 270
    ELSE 0

(* _offset_position(lat, lon, bearing, distance_km) on the grid             *)
OffsetPosition(p, bearing, distance_km) ==
    LET b == bearing % 360
    IN  IF b = 0 THEN [p EXCEPT !.y = @ + distance_km]
        ELSE IF b = 180 THEN [p EXCEPT !.y = @ - distance_km]
        ELSE IF b = 90 THEN [p EXCEPT !.xn = @ + distance_km * p.d]
        ELSE [p EXCEPT !.xn = @ - distance_km * p.d]

CorridorCount(path, sample_distance_km, corridor_width_km) ==
    LET n == SampleCount(path, sample_distance_km)
    IN  IF corridor_width_km > 0 THEN n + 2 * (n - 1) ELSE n

(* corridor_points[c]: the flight points, then for each segment i the two   *)
(* offsets of its start point, bearing + 90 before bearing - 90             *)
CorridorPoint(path, c, sample_distance_km, corridor_width_km) ==
    LET n == SampleCount(path, sample_distance_km)
    IN  IF c < n THEN SamplePoint(path, c, sample_distance_km)
        ELSE LET i == (c - n) \div 2
                 s1 == SamplePoint(path, i, sample_distance_km)
                 s2 == SamplePoint(path, i + 1, sample_distance_km)
                 bearing == CalculateBearing(s1, s2)
                 offset_bearing == IF (c - n) % 2 = 0 THEN bearing + 90 ELSE bearing - 90
             IN  [p |-> OffsetPosition(s1.p, offset_bearing, corridor_width_km), alt |-> s1.alt]


(***************************************************************************)
(* FlightProfileAnalyzer.get_chronological_crossings                       *)
(***************************************************************************)
(* The loops of the analyzer ask the engine about point 0, 1, 2, ... in     *)
(* turn.  Stage 1 of the engine drops an airspace for every point outside   *)
(* its bounding box, so the points that can match airspace k are among      *)
(* those whose longitude can lie between the box's min_lon and max_lon.     *)
(* SamplesNear is a superset of their indexes, found without visiting all   *)
(* the points; Hit decides each of them exactly.                            *)
Span(lo, hi, first, last) == Max2(lo, first)..Min2(hi, last)

(* j of segment k: its point j lies j * s plus at most (distance mod s)     *)
(* from the segment's start                                                 *)
SegmentNear(path, k, s, lo, hi) ==
    LET w1 == Waypoint(path, k)
        w2 == Waypoint(path, k + 1)
        cnt == SegmentPoints(path, k, s)
        r == HaversineDistance(w1, w2) % s
    IN  IF cnt = 1 THEN {0}
        ELSE IF w2.x > w1.x
        THEN Span((lo - w1.x - r) \div s, (hi - w1.x) \div s, 0, cnt - 1)
        ELSE Span((w1.x - hi - r) \div s, (w1.x - lo) \div s, 0, cnt - 1)

SamplesNear(path, s, lo, hi) ==
    LET n == SampleCount(path, s)
    IN  IF IsTraceFile(path)
        THEN IF path.kind = "gen" /\ path.dx > 0
             THEN Span((lo - path.x0) \div (path.dx * SampleFactor(path)),
                       (hi - path.x0) \div (path.dx * SampleFactor(path)), 0, n - 1)
             ELSE IF path.kind = "gen" /\ path.dx < 0
             THEN Span((path.x0 - hi) \div ((-path.dx) * SampleFactor(path)),
                       (path.x0 - lo) \div ((-path.dx) * SampleFactor(path)), 0, n - 1)
             ELSE 0..(n - 1)
        ELSE IF path.n < 2 THEN 0..(n - 1)
        ELSE {n - 1} \cup UNION { { PointsBefore(path, k, s) + j : j \in SegmentNear(path, k, s, lo, hi) } :
                                   k \in 0..(path.n - 2) }

(* indexes into corridor_points: the samples near, and the two offsets of   *)
(* every segment start within the corridor width of the box                 *)
CorridorNear(path, s, corridor_width_km, lo, hi) ==
    LET n == SampleCount(path, s)
    IN  SamplesNear(path, s, lo, hi)
        \cup (IF corridor_width_km > 0
              THEN UNION { {n + 2 * i, n + 2 * i + 1} :
                             i \in SamplesNear(path, s, lo - corridor_width_km,
                                               hi + corridor_width_km) \ {n - 1} }
              ELSE {})

(* variant: the entry of a dict overwritten at every hit, not only at the   *)
(* first ("if airspace_id not in first_crossings" left out)                 *)
LastHit(hits) == IF hits = {} THEN None ELSE Some(CHOOSE x \in hits : \A y \in hits : y <= x)

(* the first position of a loop at which the airspace was returned:       *)
(* Some(i), or None; hits are the positions at which it is returned        *)
FirstHit(hits) == IF hits = {} THEN None ELSE Some(SetMin(hits))

(* the keys of a dict filled by "if key not in dict" inside nested loops,   *)
(* in insertion order: by the loop position first[k] at which key k was     *)
(* first seen, then by k (the order of one query's result)                  *)
RECURSIVE InsertionOrder(_, _)
InsertionOrder(keys, first) ==
    IF keys = {} THEN <<>>
    ELSE LET k == CHOOSE a \in keys : \A b \in keys :
                      \/ first[a][1] < first[b][1]
                      \/ (first[a][1] = first[b][1] /\ a <= b)
         IN  <<k>> \o InsertionOrder(keys \ {k}, first)

(* _calculate_total_distance over the samples                               *)
RECURSIVE RouteLength(_, _)
RouteLength(path, k) ==
    IF k = 0 THEN 0
    ELSE RouteLength(path, k - 1) + HaversineDistance(Waypoint(path, k - 1), Waypoint(path, k))

RECURSIVE ThinnedLength(_, _)
ThinnedLength(path, i) ==
    IF i = 0 THEN 0
    ELSE ThinnedLength(path, i - 1)
         + HaversineDistance(Waypoint(path, SampleSourceIndex(path, i - 1)),
                             Waypoint(path, SampleSourceIndex(path, i)))

CalculateTotalDistance(path) ==
    IF ~IsTraceFile(path) THEN RouteLength(path, path.n - 1)
    ELSE IF path.kind = "gen"
    THEN Abs(path.dx) * SampleFactor(path) * (ThinnedCount(path) - 1)
    ELSE ThinnedLength(path, ThinnedCount(path) - 1)

(* list.sort(key=segment_index): stable                                     *)
RECURSIVE InsertBySegmentIndex(_, _)
InsertBySegmentIndex(c, sorted) ==
    IF sorted = <<>> THEN <<c>>
    ELSE IF c.segment_index < Head(sorted).segment_index
         THEN <<c>> \o sorted
         ELSE <<Head(sorted)>> \o InsertBySegmentIndex(c, Tail(sorted))

RECURSIVE SortBySegmentIndex(_)
SortBySegmentIndex(cs) ==
    IF cs = <<>> THEN <<>>
    ELSE InsertBySegmentIndex(cs[Len(cs)], SortBySegmentIndex(SubSeq(cs, 1, Len(cs) - 1)))

(* the entry phase 2 stores for an airspace first met at nominal sample i   *)
ActualCrossing(airspace_id, i, point, path, n) ==
    [airspace_id |-> airspace_id,
     crossing_point |-> Some(point),
     total_distance |-> IF n > 1 THEN CalculateTotalDistance(path) ELSE 0,
     flight_progress |-> IF n > 1 THEN [num |-> i, den |-> n] ELSE [num |-> 0, den |-> 1],
     segment_index |-> i,
     is_actual_crossing |-> TRUE]

(* the entry added for an airspace only the corridor discovered             *)
CorridorOnlyCrossing(airspace_id) ==
    [airspace_id |-> airspace_id,
     crossing_point |-> None,
     total_distance |-> 0,
     flight_progress |-> [num |-> 0, den |-> 1],
     segment_index |-> CORRIDOR_ONLY_INDEX,
     is_actual_crossing |-> FALSE]

(* the value get_chronological_crossings returns for a non-empty path       *)
ChronologicalCrossings(db, index, path, sample_distance_km, corridor_height_ft, corridor_width_km) ==
    LET K == IF Len(index.bounding_boxes) = 0 THEN 0 ELSE Len(index.airspace_ids)
        n == SampleCount(path, sample_distance_km)
        NominalHit(k, i) ==
            LET pt == SamplePoint(path, i, sample_distance_km)
            IN  IndexEntryMatches(db, index, k, pt.p, pt.alt)
        CorridorHit(k, c) ==
            LET pt == CorridorPoint(path, c, sample_distance_km, corridor_width_km)
            IN  IndexEntryMatches(db, index, k, pt.p, pt.alt)
        first_nominal ==
            [k \in 1..K |->
                FirstHit({ i \in SamplesNear(path, sample_distance_km,
                                              index.bounding_boxes[k].min_lon,
                                              index.bounding_boxes[k].max_lon) :
                             NominalHit(k, i) })]
        first_corridor ==
            [k \in 1..K |->
                FirstHit({ c \in CorridorNear(path, sample_distance_km, corridor_width_km,
                                               index.bounding_boxes[k].min_lon,
                                               index.bounding_boxes[k].max_lon) :
                             CorridorHit(k, c) })]
        crossed == InsertionOrder({k \in 1..K : first_nominal[k] # None}, first_nominal)
        corridor_only ==
            InsertionOrder({k \in 1..K : first_nominal[k] = None /\ first_corridor[k] # None},
                           first_corridor)
        first_crossings ==
            [j \in 1..Len(crossed) |->
                ActualCrossing(index.airspace_ids[crossed[j]], first_nominal[crossed[j]][1],
                               SamplePoint(path, first_nominal[crossed[j]][1], sample_distance_km),
                               path, n)]
            \o [j \in 1..Len(corridor_only) |->
                    CorridorOnlyCrossing(index.airspace_ids[corridor_only[j]])]
    IN  SortBySegmentIndex(first_crossings)

(***************************************************************************)
(* FlightProfileAnalyzer.analyze_kml_flight                                *)
(***************************************************************************)
RatPlus(a, ft) == [n |-> a.n + ft * a.d, d |-> a.d]

(* test_altitudes of one corridor point                                     *)
TestAltitudes(alt_ft, corridor_height_ft) ==
    LET low == RatPlus(alt_ft, -corridor_height_ft)
    IN  <<(IF low.n < 0 THEN Alt(0) ELSE low), alt_ft, RatPlus(alt_ft, corridor_height_ft)>>
        \o (IF corridor_height_ft > INTERMEDIATE_LEVELS_ABOVE
            THEN <<RatPlus(alt_ft, -(corridor_height_ft \div 2)),
                   RatPlus(alt_ft, corridor_height_ft \div 2)>>
            ELSE <<>>)

(* the keys of crossed_airspaces, in insertion order                        *)
CrossedAirspaces(db, index, path, sample_distance_km, corridor_height_ft, corridor_width_km) ==
    LET K == IF Len(index.bounding_boxes) = 0 THEN 0 ELSE Len(index.airspace_ids)
        levels == Len(TestAltitudes(Alt(0), corridor_height_ft))
        Hit(k, q) ==
            LET pt == CorridorPoint(path, q \div levels, sample_distance_km, corridor_width_km)
            IN  IndexEntryMatches(db, index, k, pt.p,
                                  TestAltitudes(pt.alt, corridor_height_ft)[(q % levels) + 1])
        first ==
            [k \in 1..K |->
                FirstHit({ q \in { c * levels + t :
                                      c \in CorridorNear(path, sample_distance_km,
                                                         corridor_width_km,
                                                         index.bounding_boxes[k].min_lon,
                                                         index.bounding_boxes[k].max_lon),
                                      t \in 0..(levels - 1) } :
                             Hit(k, q) })]
        order == InsertionOrder({k \in 1..K : first[k] # None}, first)
    IN  [j \in 1..Len(order) |-> index.airspace_ids[order[j]]]

(***************************************************************************)
(* The stores, flight files and settings the model is run on               *)
(***************************************************************************)
MaxWaypoints == 3

StandardLimits == <<Limits(Some(0), Some("FT"), Some(65), Some("FL"))>>

OnPath == Airspace("CTR", "D", <<RectBorder(400, 800, 800, 1200)>>, StandardLimits)

OnPathWide == Airspace("TMA", "A", <<RectBorder(500, 900, 1300, 1100)>>, StandardLimits)

Beside == Airspace("R", "UNKNOWN", <<RectBorder(300, 1200, 900, 1400)>>, StandardLimits)

HighBand ==
    Airspace("TMA", "C", <<RectBorder(1000, 800, 1600, 1200)>>,
             <<Limits(Some(2000), Some("FT"), Some(4000), Some("FT"))>>)

CircleOnly == Airspace("P", "UNKNOWN", <<CircleBorder(600, 1000, 2)>>, StandardLimits)

CircleAndPolygon ==
    Airspace("D", "UNKNOWN",
             <<CircleBorder(600, 1000, 2), RectBorder(1400, 800, 1800, 1200)>>, StandardLimits)

TwoBorders ==
    Airspace("TMA", "D",
             <<RectBorder(400, 800, 800, 1200), RectBorder(1400, 900, 1800, 1300)>>,
             StandardLimits)

ZeroVertex ==
    Airspace("CTR", "D",
             <<PolygonBorder(<<Vertex(1, 400, 800), Vertex(2, 800, 800), Vertex(3, 800, 1200),
                               Vertex(4, 0, 1400), Vertex(5, 400, 1200)>>)>>,
             StandardLimits)

GeometryStores ==
    { <<>>,
      <<OnPath>>,
      <<Beside, OnPath>>,
      <<OnPath, OnPathWide, HighBand, Beside>>,
      <<CircleOnly>>,
      <<CircleAndPolygon, Beside>>,
      <<TwoBorders>>,
      <<ZeroVertex, HighBand>> }

LimitValues == {None, Some(0), Some(20), Some(65)}

LimitRefs == {None, Some("FT"), Some("FL")}

VerticalStores ==
    { <<Airspace("CTR", "D", <<RectBorder(400, 800, 800, 1200)>>, <<>>)>> }
    \cup { <<Airspace("CTR", "D", <<RectBorder(400, 800, 800, 1200)>>,
                      <<Limits(lo, loRef, up, upRef)>>)>> :
             lo \in LimitValues \ {Some(65)}, loRef \in LimitRefs,
             up \in LimitValues \ {Some(0)}, upRef \in LimitRefs }

WaypointChoices == {Wp(0, 1000), Wp(1200, 2500), Wp(2000, 1000)}

RouteFiles ==
    UNION { { ListPath(pts) : pts \in [1..len -> WaypointChoices] } : len \in 0..MaxWaypoints }

TraceFiles ==
    { GenPath(TRACE_THRESHOLD + 1, 0, 40, 1000),
      GenPath(2 * TRACE_TARGET_POINTS - 1, 0, 40, 1000),
      GenPath(2 * TRACE_TARGET_POINTS, 0, 40, 1000),
      GenPath(2 * TRACE_TARGET_POINTS + 1, 80000, -40, 2500) }

FewFiles == { ListPath(<<>>), ListPath(<<Wp(600, 1000)>>), ListPath(<<Wp(0, 1000), Wp(1200, 2500)>>) }

DefaultSampleDistance == 500

TraceStores == { <<Beside, OnPath>>, <<OnPath, OnPathWide, HighBand, Beside>> }

Deployments ==
    { [store |-> st, files |-> RouteFiles, sample_distance_km |-> DefaultSampleDistance] :
        st \in GeometryStores }
    \cup { [store |-> st, files |-> TraceFiles, sample_distance_km |-> DefaultSampleDistance] :
             st \in TraceStores }
    \cup { [store |-> st, files |-> FewFiles, sample_distance_km |-> DefaultSampleDistance] :
             st \in VerticalStores }

(* a route of 10 000 km sampled every 10 m: more samples than               *)
(* CORRIDOR_ONLY_INDEX                                                      *)
LongRoute == GenPath(2, 0, CORRIDOR_ONLY_INDEX + 2, 1000)

LongBeside == Airspace("R", "UNKNOWN", <<RectBorder(3, 1200, 7, 1400)>>, StandardLimits)

LongActual ==
    Airspace("CTR", "D",
             <<RectBorder(CORRIDOR_ONLY_INDEX, 800, CORRIDOR_ONLY_INDEX + 4, 1200)>>,
             StandardLimits)

LongDeployments ==
    { [store |-> <<LongBeside, LongActual>>, files |-> FewFiles \cup {LongRoute},
       sample_distance_km |-> 1] }

CorridorHeights == {500, 1500}

CorridorWidths == {0, 300}

QueryLons == {600, 1100, 1600}

QueryLats == {1000, 1300}

QueryAltitudes == {0, 1000, 2000, 6500, 6501}

(* SamplesNear and CorridorNear leave out no point of a bounding box        *)
NearCoversBox(index, path, s, corridor_width_km) ==
    \A k \in 1..Len(index.bounding_boxes) :
        LET box == index.bounding_boxes[k]
        IN  /\ \A i \in 0..(SampleCount(path, s) - 1) :
                   BoxHasPoint(box, SamplePoint(path, i, s).p)
                       => i \in SamplesNear(path, s, box.min_lon, box.max_lon)
            /\ \A c \in 0..(CorridorCount(path, s, corridor_width_km) - 1) :
                   BoxHasPoint(box, CorridorPoint(path, c, s, corridor_width_km).p)
                       => c \in CorridorNear(path, s, corridor_width_km, box.min_lon, box.max_lon)

(***************************************************************************)
(* Profile corrector (kml_profile_corrector.py)                            *)
(*                                                                         *)
(* Waypoints lie along one line; x is the position in nautical miles and   *)
(* calculate_distance_nm is the difference of positions.  Altitudes are    *)
(* held in feet (the code holds metres and converts with 3.28084 both      *)
(* ways before it compares).  A distance needed is the exact quotient      *)
(* [n, d] of ground_speed_kts * |dH| by 60 * rate.  Waypoint names         *)
(* are distinct; a waypoint's name is its rank in the file.                *)
(***************************************************************************)
LEVEL_THRESHOLD_FT == 50

PATTERN_HEIGHT_FT == 1000

KMLPoint(name, pos, altitude) == [name |-> name, pos |-> pos, altitude |-> altitude]

WaypointName(k) == [kind |-> "Waypoint", k |-> k, altitude |-> 0]

ClimbName(k, altitude) == [kind |-> "Climb", k |-> k, altitude |-> altitude]

DescentStartName == [kind |-> "Descent_Start", k |-> 0, altitude |-> 0]

(* a waypoint of the parsed file: rank k, position x NM, altitude in feet   *)
RoutePoint(k, x, altitude) == KMLPoint(WaypointName(k), [n |-> x, d |-> 1], altitude)

CalculateDistanceNm(p1, p2) == Abs(p2.pos.n - p1.pos.n)

RECURSIVE Gcd(_, _)
Gcd(a, b) == IF b = 0 THEN a ELSE Gcd(b, a % b)

(* the quotient n / d in lowest terms                                       *)
Quotient(n, d) == [n |-> n \div Gcd(n, d), d |-> d \div Gcd(n, d)]

(* distance_needed_nm = (ground_speed_kts / 60) * (|dH| / rate)             *)
DistanceNeeded(cfg, diff_ft) ==
    Quotient(cfg.ground_speed_kts * Abs(diff_ft),
             60 * (IF diff_ft > 0 THEN cfg.climb_rate_fpm ELSE cfg.descent_rate_fpm))

ActionOf(diff_ft) == IF diff_ft > 0 THEN "CLIMB" ELSE "DESCENT"

(* distance_needed_nm < distance_nm                                         *)
FitsWithin(needed, distance_nm) == needed.n < distance_nm * needed.d

(* next_distance >= distance_needed_nm                                      *)
FitsWithinOrEqual(needed, distance_nm) == needed.n <= distance_nm * needed.d

(* interpolation at fraction needed / distance from p1 towards p2           *)
PointAlong(p1, p2, needed) ==
    [n |-> p1.pos.n * needed.d + (IF p2.pos.n >= p1.pos.n THEN needed.n ELSE 0 - needed.n),
     d |-> needed.d]

(* interpolation at fraction 1 - needed / distance from p1 towards p2       *)
PointBefore(p1, p2, needed) ==
    [n |-> p2.pos.n * needed.d - (IF p2.pos.n >= p1.pos.n THEN needed.n ELSE 0 - needed.n),
     d |-> needed.d]

Branch(start_point, end_point, target_altitude, distance, action, altitude_change, end_of_action_point, is_unreachable, start_altitude) ==
    [start_point |-> start_point, end_point |-> end_point,
     target_altitude |-> target_altitude, distance |-> distance, action |-> action,
     altitude_change |-> altitude_change, end_of_action_point |-> end_of_action_point,
     is_unreachable |-> is_unreachable, start_altitude |-> start_altitude]

WholeNm(distance_nm) == [n |-> distance_nm, d |-> 1]

Remaining(distance_nm, needed) == [n |-> distance_nm * needed.d - needed.n, d |-> needed.d]

(* the first branch (i == 0): towards the altitude of the first waypoint    *)
(* after the departure                                                      *)
FirstBranch(cfg, points, current_altitude) ==
    LET start_point == points[1]
        end_point == points[2]
        distance_nm == CalculateDistanceNm(start_point, end_point)
        target == end_point.altitude
        diff_ft == target - current_altitude
        needed == DistanceNeeded(cfg, diff_ft)
        climb_end == KMLPoint(ClimbName(end_point.name.k, target),
                              PointAlong(start_point, end_point, needed), target)
    IN  IF Abs(diff_ft) > LEVEL_THRESHOLD_FT
        THEN IF FitsWithin(needed, distance_nm)
             THEN [branches |-> << Branch(start_point, climb_end, target, needed, ActionOf(diff_ft),
                                         diff_ft, None, FALSE, current_altitude),
                                  Branch(climb_end, end_point, target, Remaining(distance_nm, needed),
                                         "LEVEL", 0, None, FALSE, target) >>,
                   current_altitude |-> target]
             ELSE [branches |-> << Branch(start_point, end_point, target, WholeNm(distance_nm),
                                         ActionOf(diff_ft), diff_ft, None, TRUE, current_altitude) >>,
                   current_altitude |-> target]
        ELSE [branches |-> << Branch(start_point, end_point, current_altitude, WholeNm(distance_nm),
                                    "LEVEL", 0, None, FALSE, current_altitude) >>,
              current_altitude |-> end_point.altitude]

(* the final branch (i == len(points) - 2, i > 0): towards the arrival      *)
(* altitude                                                                 *)
FinalBranch(cfg, points, i, current_altitude, arrival_altitude) ==
    LET start_point == points[i + 1]
        end_point == points[i + 2]
        distance_nm == CalculateDistanceNm(start_point, end_point)
        diff_ft == arrival_altitude - current_altitude
        needed == DistanceNeeded(cfg, diff_ft)
        descent_start == KMLPoint(DescentStartName, PointBefore(start_point, end_point, needed),
                                  current_altitude)
    IN  IF Abs(diff_ft) > LEVEL_THRESHOLD_FT
        THEN IF FitsWithin(needed, distance_nm)
             THEN [branches |-> << Branch(start_point, descent_start, current_altitude,
                                         Remaining(distance_nm, needed), "LEVEL", 0, None, FALSE,
                                         current_altitude),
                                  Branch(descent_start, end_point, arrival_altitude, needed,
                                         ActionOf(diff_ft), diff_ft, Some(descent_start), FALSE,
                                         current_altitude) >>,
                   current_altitude |-> arrival_altitude]
             ELSE [branches |-> << Branch(start_point, end_point, arrival_altitude,
                                         WholeNm(distance_nm), ActionOf(diff_ft), diff_ft, None,
                                         TRUE, current_altitude) >>,
                   current_altitude |-> arrival_altitude]
        ELSE [branches |-> << Branch(start_point, end_point, current_altitude, WholeNm(distance_nm),
                                    "LEVEL", 0, None, FALSE, current_altitude) >>,
              current_altitude |-> arrival_altitude]

(* an intermediate branch: level to the waypoint, then the change towards   *)
(* the waypoint's altitude, which starts at the waypoint                    *)
IntermediateBranch(cfg, points, i, current_altitude) ==
    LET start_point == points[i + 1]
        end_point == points[i + 2]
        distance_nm == CalculateDistanceNm(start_point, end_point)
        waypoint_altitude == end_point.altitude
        diff_ft == waypoint_altitude - current_altitude
        needed == DistanceNeeded(cfg, diff_ft)
        next_distance == CalculateDistanceNm(points[i + 2], points[i + 3])
        end_of_action_point ==
            IF FitsWithinOrEqual(needed, next_distance)
            THEN Some(KMLPoint(ClimbName(end_point.name.k, waypoint_altitude),
                               PointAlong(points[i + 2], points[i + 3], needed), waypoint_altitude))
            ELSE None
        level == Branch(start_point, end_point, current_altitude, WholeNm(distance_nm), "LEVEL", 0,
                        None, FALSE, current_altitude)
    IN  IF Abs(diff_ft) > LEVEL_THRESHOLD_FT
        THEN [branches |-> << level,
                             Branch(end_point, end_point, waypoint_altitude, needed,
                                    ActionOf(diff_ft), diff_ft, end_of_action_point, FALSE,
                                    current_altitude) >>,
              current_altitude |-> waypoint_altitude]
        ELSE [branches |-> << level >>, current_altitude |-> waypoint_altitude]

BranchesOfSegment(cfg, points, i, current_altitude, arrival_altitude) ==
    IF i = 0 THEN FirstBranch(cfg, points, current_altitude)
    ELSE IF i = Len(points) - 2 THEN FinalBranch(cfg, points, i, current_altitude, arrival_altitude)
    ELSE IntermediateBranch(cfg, points, i, current_altitude)

RECURSIVE BranchesFrom(_, _, _, _, _)
BranchesFrom(cfg, points, i, current_altitude, arrival_altitude) ==
    IF i > Len(points) - 2 THEN <<>>
    ELSE LET step == BranchesOfSegment(cfg, points, i, current_altitude, arrival_altitude)
         IN  step.branches \o BranchesFrom(cfg, points, i + 1, step.current_altitude, arrival_altitude)

(* analyze_branches(points, ground_elevations); the elevations are those    *)
(* of the first and of the last waypoint, in feet                           *)
AnalyzeBranches(cfg, points, departure_elevation, arrival_elevation) ==
    IF Len(points) < 2 THEN <<>>
    ELSE BranchesFrom(cfg, points, 0, departure_elevation + PATTERN_HEIGHT_FT,
                      arrival_elevation + PATTERN_HEIGHT_FT)

IsSyntheticStart(name) == name.kind = "Descent_Start"

RECURSIVE CorrectedFrom(_, _, _, _, _)
CorrectedFrom(branches, i, current_altitude, processed_waypoints, departure_altitude) ==
    IF i > Len(branches) THEN <<>>
    ELSE LET branch == branches[i]
             emits_start == branch.start_point.name \notin processed_waypoints
                            /\ ~IsSyntheticStart(branch.start_point.name)
             start == IF ~emits_start THEN <<>>
                      ELSE << KMLPoint(branch.start_point.name, branch.start_point.pos,
                                       IF i = 1 THEN departure_altitude ELSE current_altitude) >>
             action_point == IF branch.end_of_action_point # None /\ ~branch.is_unreachable
                             THEN << KMLPoint([kind |-> branch.action, k |-> branch.end_point.name.k,
                                               altitude |-> branch.end_of_action_point[1].altitude],
                                              branch.end_of_action_point[1].pos,
                                              branch.end_of_action_point[1].altitude) >>
                             ELSE <<>>
         IN  start \o action_point
             \o CorrectedFrom(branches, i + 1, branch.target_altitude,
                              IF emits_start THEN processed_waypoints \cup {branch.start_point.name}
                              ELSE processed_waypoints,
                              departure_altitude)

(* generate_corrected_kml_points(points, branches, ground_elevations)       *)
GenerateCorrectedKmlPoints(points, branches, departure_elevation, arrival_elevation) ==
    IF Len(points) < 2 THEN points
    ELSE CorrectedFrom(branches, 1, departure_elevation + PATTERN_HEIGHT_FT, {},
                       departure_elevation + PATTERN_HEIGHT_FT)
         \o << KMLPoint(points[Len(points)].name, points[Len(points)].pos,
                        arrival_elevation + PATTERN_HEIGHT_FT) >>

(***************************************************************************)
(* Routes and settings of the profile corrector                            *)
(***************************************************************************)
MaxRoutePoints == 4

LegChoices == {3, 10}

RouteAltitudes == {1300, 2200, 3000}

AirfieldElevations == {250, 300, 340}

(* the constructor's defaults, and a faster climb                           *)
CorrectorSettings ==
    { [climb_rate_fpm |-> 500, descent_rate_fpm |-> 500, ground_speed_kts |-> 100],
      [climb_rate_fpm |-> 1000, descent_rate_fpm |-> 500, ground_speed_kts |-> 100] }

RECURSIVE PositionAfter(_, _)
PositionAfter(legs, k) == IF k = 0 THEN 0 ELSE PositionAfter(legs, k - 1) + legs[k]

(* the parsed files: waypoints at the ends of the legs, each with the       *)
(* altitude the file gives it                                               *)
CorrectorRoutes ==
    { <<>> } \cup
    UNION { { [k \in 1..n |-> RoutePoint(k - 1, PositionAfter(legs, k - 1), altitudes[k])] :
                  legs \in [1..(n - 1) -> LegChoices], altitudes \in [1..n -> RouteAltitudes] } :
            n \in 1..MaxRoutePoints }

(***************************************************************************)
(* AIXM importer (aixm_extractor.py)                                       *)
(*                                                                         *)
(* A source file is the sequence of its Ase and Abd elements and, when it  *)
(* is not well-formed, the rank of the element at which the parser         *)
(* raises.  A text that is a number carries the number; sqlite stores      *)
(* such a text in an INTEGER or REAL column as the number and any other    *)
(* text as it is.  A row id is the rank of the row in its table (no row    *)
(* is ever deleted).  A nullable column holds None or Some(value).         *)
(***************************************************************************)
COMMIT_EVERY == 1000

NumericText(number) == [numeric |-> TRUE, number |-> number, text |-> ""]

OtherText(text) == [numeric |-> FALSE, number |-> 0, text |-> text]

(* a coordinate text DDMMSS.ssH or DDDMMSS.ssH, or a text of another length *)
CoordText(degrees, minutes, seconds, direction) ==
    [recognised |-> TRUE, degrees |-> degrees, minutes |-> minutes, seconds |-> seconds,
     direction |-> direction]

UnrecognisedCoordText ==
    [recognised |-> FALSE, degrees |-> 0, minutes |-> 0, seconds |-> 0, direction |-> "N"]

(* parse_coordinate_aixm(coord_str), in seconds of arc                      *)
ParseCoordinateAixm(coord_str) ==
    IF ~coord_str.recognised THEN None
    ELSE LET decimal == coord_str.degrees * 3600 + coord_str.minutes * 60 + coord_str.seconds
         IN  IF coord_str.direction \in {"S", "W"} THEN Some(0 - decimal) ELSE Some(decimal)

Avx(geoLat, geoLong, noSeq) == [geoLat |-> geoLat, geoLong |-> geoLong, noSeq |-> noSeq]

Ase(codeId, codeType, txtName, codeClass, valDistVerLower, uomDistVerLower, valDistVerUpper, uomDistVerUpper) ==
    [tag |-> "Ase", codeId |-> codeId, codeType |-> codeType, txtName |-> txtName,
     codeClass |-> codeClass, valDistVerLower |-> valDistVerLower,
     uomDistVerLower |-> uomDistVerLower, valDistVerUpper |-> valDistVerUpper,
     uomDistVerUpper |-> uomDistVerUpper, avx |-> <<>>]

Abd(codeId, avx) ==
    [tag |-> "Abd", codeId |-> codeId, codeType |-> None, txtName |-> None, codeClass |-> None,
     valDistVerLower |-> None, uomDistVerLower |-> None, valDistVerUpper |-> None,
     uomDistVerUpper |-> None, avx |-> avx]

(* malformed_at = 0: the file is well-formed; k > 0: the parser raises      *)
(* ParseError after it has delivered the first k - 1 elements               *)
SourceFile(elements, malformed_at) ==
    [elements |-> elements, malformed_at |-> malformed_at, insert_fails_at |-> 0]

(* a well-formed file imported while the store refuses the INSERT INTO      *)
(* airspace_borders of pass 2 for the element of rank insert_fails_at       *)
(* (sqlite3.Error: the database is locked, the disk is full)                *)
SourceOnFailingStore(elements, insert_fails_at) ==
    [elements |-> elements, malformed_at |-> 0, insert_fails_at |-> insert_fails_at]

(* init_database(): CREATE TABLE IF NOT EXISTS leaves existing tables and   *)
(* their rows as they are                                                   *)
EmptyDatabase ==
    [airspaces |-> <<>>, airspace_borders |-> <<>>, border_vertices |-> <<>>,
     vertical_limits |-> <<>>]

InitDatabase(db) == db

(* the value of .get(key, default) on a dict that always holds the key      *)
OrElse(optional, default) == IF optional = None THEN default ELSE optional[1]

(* variant: the first airspace of a code_id keeps the entry                 *)
RecordMappingOnce(airspace_mapping, code_id, airspace_id) ==
    [c \in DOMAIN airspace_mapping \cup {code_id} |->
         IF c \in DOMAIN airspace_mapping THEN airspace_mapping[c] ELSE airspace_id]

(* self.airspace_mapping[code_id] = airspace_id                             *)
RecordMapping(airspace_mapping, code_id, airspace_id) ==
    [c \in DOMAIN airspace_mapping \cup {code_id} |->
         IF c = code_id THEN airspace_id ELSE airspace_mapping[c]]

(* pass 1 on one Ase element: the airspaces row, its vertical_limits row    *)
(* and the entry of airspace_mapping                                        *)
ProcessAse(state, elem) ==
    IF elem.codeId = None THEN state
    ELSE LET airspace_id == Len(state.database.airspaces) + 1
             row == [id |-> airspace_id, code_id |-> elem.codeId[1], code_type |-> elem.codeType,
                     name |-> Some(OrElse(elem.txtName, elem.codeId[1])),
                     airspace_class |-> Some(OrElse(elem.codeClass, "UNKNOWN"))]
             limits == [airspace_id |-> airspace_id,
                        lower_limit_ft |-> elem.valDistVerLower,
                        upper_limit_ft |-> elem.valDistVerUpper,
                        lower_limit_ref |-> IF elem.valDistVerLower = None THEN None
                                            ELSE elem.uomDistVerLower,
                        upper_limit_ref |-> IF elem.valDistVerUpper = None THEN None
                                            ELSE elem.uomDistVerUpper]
             with_limits == elem.valDistVerLower # None \/ elem.valDistVerUpper # None
         IN  [database |->
                  [state.database EXCEPT
                       !.airspaces = Append(@, row),
                       !.vertical_limits = IF with_limits THEN Append(@, limits) ELSE @],
              airspace_mapping |->
                  RecordMapping(state.airspace_mapping, elem.codeId[1], airspace_id)]

(* the elements that carry a codeId: the only ones either pass takes        *)
(* data from.  An Ase without AseUid/codeId and an Abd without a reference  *)
(* are counted and leave the store and the mapping as they are.             *)
WithCodeId(elements, k) ==
    LET HasCodeId(elem) == elem.codeId # None
    IN  SelectSeq(SubSeq(elements, k, Len(elements)), HasCodeId)

RECURSIVE AseFrom(_, _, _)
AseFrom(state, elements, k) ==
    IF k > Len(elements) THEN state
    ELSE AseFrom(IF elements[k].tag = "Ase" THEN ProcessAse(state, elements[k]) ELSE state,
                 elements, k + 1)

ProcessAirspacesPass1(state, elements, k) == AseFrom(state, WithCodeId(elements, k), 1)

(* variant: an Abd whose codeId is not in the mapping is attached to        *)
(* airspace 0                                                               *)
BorderTargetUnchecked(airspace_mapping, airspace_code_id) ==
    IF airspace_code_id = None THEN None
    ELSE IF airspace_code_id[1] \in DOMAIN airspace_mapping
         THEN Some(airspace_mapping[airspace_code_id[1]])
         ELSE Some(0)

(* the airspace an Abd is attached to: airspace_code_id and                 *)
(* airspace_code_id in self.airspace_mapping                                *)
BorderTarget(airspace_mapping, airspace_code_id) ==
    IF airspace_code_id = None THEN None
    ELSE IF airspace_code_id[1] \in DOMAIN airspace_mapping
         THEN Some(airspace_mapping[airspace_code_id[1]])
         ELSE None

(* extract_vertices_from_abd on one Avx: a border_vertices row when both    *)
(* coordinates are there and parse and int(noSeq) does not raise            *)
VertexRows(avx, border_id) ==
    IF avx.geoLat = None \/ avx.geoLong = None THEN <<>>
    ELSE LET latitude == ParseCoordinateAixm(avx.geoLat[1])
             longitude == ParseCoordinateAixm(avx.geoLong[1])
             unreadable == avx.noSeq # None /\ ~avx.noSeq[1].numeric
             sequence == IF avx.noSeq = None THEN 1 ELSE avx.noSeq[1].number
         IN  IF unreadable \/ latitude = None \/ longitude = None THEN <<>>
             ELSE << [border_id |-> border_id, sequence_number |-> sequence,
                      latitude |-> latitude[1], longitude |-> longitude[1]] >>

RECURSIVE ExtractVerticesFromAbd(_, _, _)
ExtractVerticesFromAbd(avx_elements, border_id, k) ==
    IF k > Len(avx_elements) THEN <<>>
    ELSE VertexRows(avx_elements[k], border_id)
         \o ExtractVerticesFromAbd(avx_elements, border_id, k + 1)

(* pass 2 on one Abd element                                                *)
ProcessAbd(state, elem) ==
    LET target == BorderTarget(state.airspace_mapping, elem.codeId)
        border_id == Len(state.database.airspace_borders) + 1
    IN  IF target = None THEN state
        ELSE [state EXCEPT
                  !.database.airspace_borders =
                      Append(@, [id |-> border_id, airspace_id |-> target[1],
                                 border_type |-> "STANDARD"]),
                  !.database.border_vertices =
                      @ \o ExtractVerticesFromAbd(elem.avx, border_id, 1)]

RECURSIVE AbdFrom(_, _, _)
AbdFrom(state, elements, k) ==
    IF k > Len(elements) THEN state
    ELSE AbdFrom(IF elements[k].tag = "Abd" THEN ProcessAbd(state, elements[k]) ELSE state,
                 elements, k + 1)

ProcessBordersPass2(state, elements, k) == AbdFrom(state, WithCodeId(elements, k), 1)

AseCount(elements) == Cardinality({ k \in 1..Len(elements) : elements[k].tag = "Ase" })

(* the elements pass 1 had committed when the parser raised: a commit       *)
(* every COMMIT_EVERY Ase elements, the rest is rolled back                 *)
RECURSIVE CommittedPrefix(_, _)
CommittedPrefix(elements, k) ==
    IF k = 0 \/ (elements[k].tag = "Ase"
                 /\ AseCount(SubSeq(elements, 1, k)) % COMMIT_EVERY = 0)
    THEN SubSeq(elements, 1, k)
    ELSE CommittedPrefix(elements, k - 1)

AbdCount(elements) == Cardinality({ k \in 1..Len(elements) : elements[k].tag = "Abd" })

(* variant: no commit before the end of pass 2                              *)
NoBorderCommitted(elements, k) == <<>>

(* the elements pass 2 had committed when the store raised: a commit        *)
(* every COMMIT_EVERY Abd elements, the rest is rolled back                 *)
RECURSIVE CommittedBorders(_, _)
CommittedBorders(elements, k) ==
    IF k = 0 \/ (elements[k].tag = "Abd"
                 /\ AbdCount(SubSeq(elements, 1, k)) % COMMIT_EVERY = 0)
    THEN SubSeq(elements, 1, k)
    ELSE CommittedBorders(elements, k - 1)

(* extract_complete_data() of a new AIXMExtractor(xml_path, db_path): the   *)
(* database it leaves and whether it logged "Erreur lors de                 *)
(* l'extraction" and went on to print_statistics                            *)
ExtractCompleteData(db, source) ==
    LET start == [database |-> InitDatabase(db), airspace_mapping |-> <<>>]
    IN  IF source.malformed_at > 0
        THEN [database |->
                  ProcessAirspacesPass1(start,
                      CommittedPrefix(source.elements, source.malformed_at - 1), 1).database,
              error_logged |-> TRUE, raised |-> "none"]
        ELSE IF source.insert_fails_at > 0
        THEN [database |->
                  ProcessBordersPass2(ProcessAirspacesPass1(start, source.elements, 1),
                      CommittedBorders(source.elements, source.insert_fails_at - 1), 1).database,
              error_logged |-> TRUE, raised |-> "none"]
        ELSE [database |-> ProcessBordersPass2(ProcessAirspacesPass1(start, source.elements, 1),
                                               source.elements, 1).database,
              error_logged |-> FALSE, raised |-> "none"]

(***************************************************************************)
(* Source files of the importer                                            *)
(***************************************************************************)
MaxStoredAirspaces == 2

Square ==
    << Avx(Some(CoordText(48, 0, 0, "N")), Some(CoordText(2, 0, 0, "E")), Some(NumericText(1))),
       Avx(Some(CoordText(48, 0, 0, "N")), Some(CoordText(2, 30, 0, "E")), Some(NumericText(2))),
       Avx(Some(CoordText(48, 30, 0, "N")), Some(CoordText(2, 30, 0, "E")), Some(NumericText(3))),
       Avx(Some(CoordText(48, 30, 0, "N")), Some(CoordText(2, 0, 0, "E")), None) >>

Damaged ==
    << Avx(Some(CoordText(47, 0, 0, "N")), Some(CoordText(1, 0, 0, "W")), Some(NumericText(1))),
       Avx(Some(UnrecognisedCoordText), Some(CoordText(1, 0, 0, "W")), Some(NumericText(2))),
       Avx(None, Some(CoordText(1, 0, 0, "W")), Some(NumericText(3))),
       Avx(Some(CoordText(47, 30, 0, "N")), Some(CoordText(1, 30, 0, "W")), Some(OtherText("x"))) >>

AseRestricted ==
    Ase(Some("LFR1"), Some("R"), Some("R 1"), None, Some(NumericText(0)), Some("FT"),
        Some(NumericText(65)), Some("FL"))

AseControl ==
    Ase(Some("CTR1"), Some("CTR"), None, Some("D"), Some(OtherText("GND")), None,
        Some(NumericText(2500)), Some("FT"))

AseUnlimited ==
    Ase(Some("TMA1"), Some("TMA"), Some("TMA ONE"), Some("A"), Some(NumericText(65)), Some("FL"),
        Some(OtherText("UNL")), None)

(* a second Ase with the codeId of AseRestricted                            *)
AseRestrictedTwin ==
    Ase(Some("LFR1"), Some("R"), Some("R 1 BIS"), None, Some(NumericText(0)), Some("FT"),
        Some(NumericText(45)), Some("FL"))

AseNoLimits == Ase(Some("D10"), Some("D"), Some("D 10"), None, None, Some("FT"), None, None)

AseNoUid == Ase(None, Some("P"), Some("P 1"), None, Some(NumericText(0)), Some("FT"), None, None)

ImportSources ==
    { SourceFile(<<>>, 0),
      SourceFile(<<AseRestricted, Abd(Some("LFR1"), Square)>>, 0),
      SourceFile(<<Abd(Some("LFR1"), Square), AseRestricted>>, 0),
      SourceFile(<<AseRestricted, Abd(Some("ZZZ"), Square), Abd(Some("LFR1"), Damaged)>>, 0),
      SourceFile(<<AseRestricted, AseNoLimits, Abd(None, Square), Abd(Some("D10"), Square),
                   Abd(Some("LFR1"), Square)>>, 0),
      SourceFile(<<AseControl, Abd(Some("CTR1"), Square)>>, 0),
      SourceFile(<<AseUnlimited>>, 0),
      SourceFile(<<AseNoUid, Abd(Some("P1"), Square)>>, 0),
      SourceFile(<<AseNoLimits, Abd(Some("D10"), Damaged)>>, 0),
      SourceFile(<<AseRestricted, Abd(Some("LFR1"), Square), AseRestrictedTwin,
                   Abd(Some("LFR1"), Damaged), AseNoLimits, Abd(Some("D10"), Square)>>, 0),
      SourceFile(<<AseRestricted, Abd(Some("LFR1"), Square)>>, 1),
      SourceFile(<<AseRestricted, Abd(Some("LFR1"), Square)>>, 2),
      SourceFile(<<AseRestricted, Abd(Some("LFR1"), Square)>>, 3) }

(* files of more than COMMIT_EVERY Ase or Abd elements: the Ase without a   *)
(* uid and the Abd without a reference are counted and leave no row         *)
ManyAse ==
    [k \in 1..(COMMIT_EVERY + 1) |->
         IF k < COMMIT_EVERY THEN AseNoUid
         ELSE IF k = COMMIT_EVERY THEN AseRestricted ELSE AseControl]

ManyAbd ==
    <<AseRestricted>>
    \o [k \in 1..(COMMIT_EVERY + 2) |->
            IF k < COMMIT_EVERY THEN Abd(None, <<>>) ELSE Abd(Some("LFR1"), Square)]

FewElements == <<AseRestricted, AseNoLimits, Abd(Some("LFR1"), Square), Abd(Some("D10"), Damaged)>>

BatchSources ==
    { SourceFile(FewElements, 0),
      SourceFile(FewElements, 2),
      SourceFile(FewElements, 4),
      SourceOnFailingStore(FewElements, 3),
      SourceOnFailingStore(FewElements, 4),
      SourceFile(<<AseUnlimited>>, 0),
      SourceFile(<<AseNoLimits, Abd(Some("D10"), Square)>>, 0),
      SourceFile(ManyAse, 0),
      SourceFile(ManyAse, COMMIT_EVERY + 1),
      SourceFile(ManyAse, COMMIT_EVERY + 2),
      SourceFile(ManyAbd, 0),
      SourceOnFailingStore(ManyAbd, COMMIT_EVERY + 2),
      SourceOnFailingStore(ManyAbd, COMMIT_EVERY + 3) }

(***************************************************************************)
(* KMLVolumeService.get_airspace_by_name (kml_generator.py)                *)
(*                                                                         *)
(* Texts are compared character by character; Spelling gives the           *)
(* characters of every text of the model and Alphabet their order          *)
(* (that of their codes).                                                  *)
(***************************************************************************)
Alphabet == <<" ", "1", "A", "D", "G", "L", "M", "N", "R", "T", "U", "a", "m", "t">>

CharCode(c) == CHOOSE i \in 1..Len(Alphabet) : Alphabet[i] = c

(* LIKE takes no account of the case of ASCII letters                       *)
ToUpper(c) ==
    CASE c = "a" -> "A"
      [] c = "m" -> "M"
      [] c = "t" -> "T"
      [] OTHER -> c

Spelling ==
    ("" :> <<>>) @@ ("TMA 1" :> <<"T", "M", "A", " ", "1">>)
    @@ ("tma 1" :> <<"t", "m", "a", " ", "1">>) @@ ("R 1" :> <<"R", " ", "1">>)
    @@ ("TMA" :> <<"T", "M", "A">>) @@ ("tma" :> <<"t", "m", "a">>) @@ ("1" :> <<"1">>)
    @@ ("D" :> <<"D">>) @@ ("GND" :> <<"G", "N", "D">>) @@ ("UNL" :> <<"U", "N", "L">>)

(* -1, 0 or 1 as the characters s come before, with or after t              *)
RECURSIVE CompareChars(_, _, _)
CompareChars(s, t, i) ==
    IF i > Len(s) /\ i > Len(t) THEN 0
    ELSE IF i > Len(s) THEN 0 - 1
    ELSE IF i > Len(t) THEN 1
    ELSE IF CharCode(s[i]) < CharCode(t[i]) THEN 0 - 1
    ELSE IF CharCode(s[i]) > CharCode(t[i]) THEN 1
    ELSE CompareChars(s, t, i + 1)

(* ORDER BY on a TEXT column: NULL first                                    *)
CompareText(a, b) ==
    IF a = None /\ b = None THEN 0
    ELSE IF a = None THEN 0 - 1
    ELSE IF b = None THEN 1
    ELSE CompareChars(Spelling[a[1]], Spelling[b[1]], 1)

(* ORDER BY on a limit column: NULL, then numbers, then texts               *)
CompareLimit(a, b) ==
    IF a = None \/ b = None THEN (IF a = b THEN 0 ELSE IF a = None THEN 0 - 1 ELSE 1)
    ELSE IF a[1].numeric /\ b[1].numeric
         THEN (IF a[1].number < b[1].number THEN 0 - 1
               ELSE IF a[1].number > b[1].number THEN 1 ELSE 0)
    ELSE IF a[1].numeric THEN 0 - 1
    ELSE IF b[1].numeric THEN 1
    ELSE CompareChars(Spelling[a[1].text], Spelling[b[1].text], 1)

(* variant: the class has no part in the order                              *)
ClassRankIgnored(row) == 0

(* CASE WHEN a.airspace_class = 'UNKNOWN' OR a.airspace_class IS NULL       *)
(* THEN 1 ELSE 0 END                                                        *)
ClassRank(row) ==
    IF row.airspace_class = None \/ row.airspace_class = Some("UNKNOWN") THEN 1 ELSE 0

(* the ORDER BY of the query                                                *)
CompareRows(r1, r2) ==
    IF ClassRank(r1) # ClassRank(r2) THEN (IF ClassRank(r1) < ClassRank(r2) THEN 0 - 1 ELSE 1)
    ELSE IF CompareText(r1.name, r2.name) # 0 THEN CompareText(r1.name, r2.name)
    ELSE IF CompareLimit(r1.lower_limit_ft, r2.lower_limit_ft) # 0
         THEN CompareLimit(r1.lower_limit_ft, r2.lower_limit_ft)
    ELSE CompareLimit(r1.upper_limit_ft, r2.upper_limit_ft)

(* rows that the ORDER BY does not tell apart come out in either order:     *)
(* a new row goes after its equals, or before them                          *)
InsertRow(sorted, row, after_equals) ==
    LET before == { k \in 1..Len(sorted) :
                        \/ CompareRows(sorted[k], row) < 0
                        \/ (after_equals /\ CompareRows(sorted[k], row) = 0) }
        n == Cardinality(before)
    IN  SubSeq(sorted, 1, n) \o <<row>> \o SubSeq(sorted, n + 1, Len(sorted))

RECURSIVE OrderRows(_, _, _)
OrderRows(rows, k, after_equals) ==
    IF k = 0 THEN <<>>
    ELSE InsertRow(OrderRows(rows, k - 1, after_equals), rows[k], after_equals)

(* a.name LIKE '%pattern%'                                                  *)
Like(name, name_pattern) ==
    /\ name # None
    /\ LET n == Spelling[name[1]]
           p == Spelling[name_pattern]
       IN  \E offset \in 0..(Len(n) - Len(p)) :
               \A i \in 1..Len(p) : ToUpper(n[offset + i]) = ToUpper(p[i])

JoinedRow(airspace, lower, upper, lower_ref, upper_ref) ==
    [id |-> airspace.id, code_id |-> airspace.code_id, code_type |-> airspace.code_type,
     name |-> airspace.name, airspace_class |-> airspace.airspace_class,
     lower_limit_ft |-> lower, upper_limit_ft |-> upper,
     lower_limit_ref |-> lower_ref, upper_limit_ref |-> upper_ref]

(* airspaces a LEFT JOIN vertical_limits vl ON a.id = vl.airspace_id        *)
JoinOfAirspace(db, airspace) ==
    LET Mine(vl) == vl.airspace_id = airspace.id
        limits == SelectSeq(db.vertical_limits, Mine)
    IN  IF Len(limits) = 0 THEN << JoinedRow(airspace, None, None, None, None) >>
        ELSE [k \in 1..Len(limits) |->
                  JoinedRow(airspace, limits[k].lower_limit_ft, limits[k].upper_limit_ft,
                            limits[k].lower_limit_ref, limits[k].upper_limit_ref)]

RECURSIVE LeftJoin(_, _)
LeftJoin(db, k) ==
    IF k > Len(db.airspaces) THEN <<>>
    ELSE JoinOfAirspace(db, db.airspaces[k]) \o LeftJoin(db, k + 1)

MatchingRows(db, name_pattern) ==
    LET Matches(row) == Like(row.name, name_pattern)
    IN  SelectSeq(LeftJoin(db, 1), Matches)

CombinationOf(result) ==
    << result.name, result.code_type, result.lower_limit_ft, result.upper_limit_ft >>

RECURSIVE FilterSeen(_, _, _)
FilterSeen(results, k, seen_combinations) ==
    IF k > Len(results) THEN <<>>
    ELSE IF CombinationOf(results[k]) \in seen_combinations
         THEN FilterSeen(results, k + 1, seen_combinations)
         ELSE <<results[k]>>
              \o FilterSeen(results, k + 1, seen_combinations \cup {CombinationOf(results[k])})

(* get_airspace_by_name(name_pattern): filtered_results                    *)
AirspacesByName(db, name_pattern, after_equals) ==
    LET rows == MatchingRows(db, name_pattern)
    IN  FilterSeen(OrderRows(rows, Len(rows), after_equals), 1, {})

(***************************************************************************)
(* Databases and patterns of the search by name                            *)
(***************************************************************************)
TmaKnown ==
    Ase(Some("TMA1"), Some("TMA"), Some("TMA 1"), Some("D"), Some(NumericText(0)), Some("FT"),
        Some(NumericText(65)), Some("FL"))

TmaOtherClass ==
    Ase(Some("TMA1"), Some("TMA"), Some("TMA 1"), Some("A"), Some(NumericText(0)), Some("FT"),
        Some(NumericText(65)), Some("FL"))

TmaUnknown ==
    Ase(Some("TMA1"), Some("TMA"), Some("TMA 1"), None, Some(NumericText(0)), Some("FT"),
        Some(NumericText(65)), Some("FL"))

TmaUpperPart ==
    Ase(Some("TMA1"), Some("TMA"), Some("TMA 1"), None, Some(NumericText(65)), Some("FL"),
        Some(OtherText("UNL")), None)

TmaLowerCase ==
    Ase(Some("TMA1"), Some("TMA"), Some("tma 1"), Some("D"), Some(OtherText("GND")), None,
        Some(NumericText(65)), Some("FL"))

SearchSources ==
    { SourceFile(<<>>, 0),
      SourceFile(<<AseRestricted>>, 0),
      SourceFile(<<TmaUnknown, TmaKnown>>, 0),
      SourceFile(<<TmaKnown, TmaUnknown, AseRestricted>>, 0),
      SourceFile(<<TmaUnknown, TmaOtherClass, TmaKnown>>, 0),
      SourceFile(<<TmaUnknown, TmaUpperPart, TmaLowerCase>>, 0) }

(* a database in which another writer left the class of the airspaces of    *)
(* unknown class NULL                                                       *)
NullClasses(db) ==
    [db EXCEPT !.airspaces =
         [k \in 1..Len(db.airspaces) |->
              IF db.airspaces[k].airspace_class = Some("UNKNOWN")
              THEN [db.airspaces[k] EXCEPT !.airspace_class = None]
              ELSE db.airspaces[k]]]

ImportedDatabases ==
    { ExtractCompleteData(EmptyDatabase, s).database : s \in SearchSources }
    \cup { ExtractCompleteData(ExtractCompleteData(EmptyDatabase, s).database, t).database :
               s \in SearchSources, t \in SearchSources }

SearchDatabases == ImportedDatabases \cup { NullClasses(db) : db \in ImportedDatabases }

NamePatterns == {"", "TMA", "tma", "1", "D", "R 1"}

(***************************************************************************)
(* The listing of a flight's crossings (navpro.py, navpro_gui.py)          *)
(***************************************************************************)
LIST_SAMPLE_DISTANCE == 500

(* str.upper() on the types and classes of the model                        *)
UpperCase(text) ==
    CASE text = "r" -> "R"
      [] text = "p" -> "P"
      [] text = "a" -> "A"
      [] text = "unknown" -> "UNKNOWN"
      [] OTHER -> text

GuiFilterTypes == {"SECTOR", "FIR", "D-OTHER"}

(* code_type in ['P', 'R'] or airspace_class == 'A'                         *)
IsCriticalAirspace(airspace) ==
    UpperCase(airspace.code_type) \in {"P", "R"} \/ UpperCase(airspace.airspace_class) = "A"

(* the crossings left after the filter on the type                          *)
FilteredCrossings(db, crossings, filter_types) ==
    LET Kept(crossing) == UpperCase(db[crossing.airspace_id].code_type) \notin filter_types
    IN  SelectSeq(crossings, Kept)

ListedEntry(crossing, is_red_zone) ==
    [airspace_id |-> crossing.airspace_id, is_actual_crossing |-> crossing.is_actual_crossing,
     is_red_zone |-> is_red_zone]

RedZoneCount(listed) == Cardinality({ i \in 1..Len(listed) : listed[i].is_red_zone })

(* cmd_list_profile: the entries displayed and the count of the warning     *)
CliListing(db, crossings, filter_types) ==
    LET filtered_crossings == FilteredCrossings(db, crossings, filter_types)
        listed == [i \in 1..Len(filtered_crossings) |->
                       ListedEntry(filtered_crossings[i],
                                   IsCriticalAirspace(db[filtered_crossings[i].airspace_id])
                                   /\ filtered_crossings[i].is_actual_crossing)]
    IN  [listed |-> listed, red_zone_count |-> RedZoneCount(listed)]

(* NavProGUI._run_list_analysis: the entries displayed and the count of     *)
(* the warning                                                              *)
GuiListing(db, crossings) ==
    LET filtered_crossings == FilteredCrossings(db, crossings, GuiFilterTypes)
        listed == [i \in 1..Len(filtered_crossings) |->
                       ListedEntry(filtered_crossings[i],
                                   IsCriticalAirspace(db[filtered_crossings[i].airspace_id]))]
    IN  [listed |-> listed, red_zone_count |-> RedZoneCount(listed)]

NothingListed == [listed |-> <<>>, red_zone_count |-> 0]

ListStores == { <<Beside, OnPath>>, <<OnPath, OnPathWide, HighBand, Beside>>, <<CircleOnly>> }

ListDeployments ==
    { [store |-> st, files |-> RouteFiles, sample_distance_km |-> LIST_SAMPLE_DISTANCE] :
        st \in ListStores }

CliFilterTypes == { {}, GuiFilterTypes, {"R"} }

(***************************************************************************)
(* State                                                                   *)
(***************************************************************************)
VARIABLES
    store,               \* the sqlite database the engine reads
    spatial_index,       \* engine.airspace_ids / bounding_boxes / airspace_geometries
    corridor_height_ft,  \* analyzer.corridor_height_ft
    corridor_width_km,   \* analyzer.corridor_width_km
    kml_files,           \* the flight files a caller can name
    sample_distance_km,  \* the sample distance the caller passes
    corrector,           \* the profile corrector: its rates and ground speed
    database,            \* the tables an import writes to
    ret                  \* the last call: its arguments, result and exception

vars == <<store, spatial_index, corridor_height_ft, corridor_width_km, kml_files,
          sample_distance_km, corrector, database, ret>>

NoPath == ListPath(<<>>)

(* KMLProfileCorrector(): climb_rate_fpm=500, descent_rate_fpm=500,         *)
(* ground_speed_kts=100                                                     *)
DefaultCorrector == [climb_rate_fpm |-> 500, descent_rate_fpm |-> 500, ground_speed_kts |-> 100]

NoCall ==
    [op |-> "none", path |-> NoPath, point |-> Pt(0, 0), altitude_ft |-> 0,
     raised |-> "none", value |-> <<>>]

InitWith(deployments) ==
    \E d \in deployments :
        /\ store = d.store
        /\ spatial_index = BuildSpatialIndex(d.store)
        /\ kml_files = d.files
        /\ sample_distance_km = d.sample_distance_km
        /\ corridor_height_ft \in CorridorHeights
        /\ corridor_width_km \in CorridorWidths
        /\ corrector = DefaultCorrector
        /\ database = EmptyDatabase
        /\ ret = NoCall

Init == InitWith(Deployments)

(* engine.query_airspaces_for_point(lon, lat, altitude_ft)                  *)
QueryPoint(lon, lat, altitude_ft) ==
    /\ ret = NoCall
    /\ ret' = [NoCall EXCEPT !.op = "query_airspaces_for_point",
                             !.point = Pt(lon, lat), !.altitude_ft = altitude_ft,
                             !.value = QueryAirspacesForPoint(store, spatial_index, Pt(lon, lat),
                                                              Alt(altitude_ft))]
    /\ UNCHANGED <<store, spatial_index, corridor_height_ft, corridor_width_km, kml_files,
                   sample_distance_km, corrector, database>>

(* variant: get_chronological_crossings without its "if not waypoints"      *)
(* check; an empty list then goes through every loop untouched              *)
GetChronologicalCrossingsUnchecked(path) ==
    /\ ret = NoCall
    /\ ret' = IF path.n = 0
              THEN [NoCall EXCEPT !.op = "get_chronological_crossings", !.path = path]
              ELSE [NoCall EXCEPT !.op = "get_chronological_crossings", !.path = path,
                                  !.value = ChronologicalCrossings(store, spatial_index, path,
                                                sample_distance_km, corridor_height_ft,
                                                corridor_width_km)]
    /\ UNCHANGED <<store, spatial_index, corridor_height_ft, corridor_width_km, kml_files,
                   sample_distance_km, corrector, database>>

(* analyzer.get_chronological_crossings(kml_path, sample_distance_km)       *)
GetChronologicalCrossings(path) ==
    /\ ret = NoCall
    /\ ret' = IF path.n = 0
              THEN [NoCall EXCEPT !.op = "get_chronological_crossings", !.path = path,
                                  !.raised = "ValueError"]
              ELSE [NoCall EXCEPT !.op = "get_chronological_crossings", !.path = path,
                                  !.value = ChronologicalCrossings(store, spatial_index, path,
                                                sample_distance_km, corridor_height_ft,
                                                corridor_width_km)]
    /\ UNCHANGED <<store, spatial_index, corridor_height_ft, corridor_width_km, kml_files,
                   sample_distance_km, corrector, database>>

(* analyzer.analyze_kml_flight(kml_path, sample_distance_km)                *)
AnalyzeKmlFlight(path) ==
    /\ ret = NoCall
    /\ ret' = IF path.n = 0
              THEN [NoCall EXCEPT !.op = "analyze_kml_flight", !.path = path,
                                  !.raised = "ValueError"]
              ELSE [NoCall EXCEPT !.op = "analyze_kml_flight", !.path = path,
                                  !.value = CrossedAirspaces(store, spatial_index, path,
                                                sample_distance_km, corridor_height_ft,
                                                corridor_width_km)]
    /\ UNCHANGED <<store, spatial_index, corridor_height_ft, corridor_width_km, kml_files,
                   sample_distance_km, corrector, database>>

(* the caller takes the result; the engine and the analyzer keep no state   *)
(* from one call to the next                                                *)
Return ==
    /\ ret # NoCall
    /\ ret' = NoCall
    /\ UNCHANGED <<store, spatial_index, corridor_height_ft, corridor_width_km, kml_files,
                   sample_distance_km, corrector, database>>

Next ==
    \/ \E lon \in QueryLons, lat \in QueryLats, altitude_ft \in QueryAltitudes :
           QueryPoint(lon, lat, altitude_ft)
    \/ \E path \in kml_files : GetChronologicalCrossings(path)
    \/ \E path \in kml_files : AnalyzeKmlFlight(path)
    \/ Return

Spec == Init /\ [][Next]_vars

InitLong == InitWith(LongDeployments)

SpecLong == InitLong /\ [][Next]_vars

(***************************************************************************)
(* The profile corrector on its own                                        *)
(***************************************************************************)
InitCorrector ==
    /\ store = <<>>
    /\ spatial_index = BuildSpatialIndex(store)
    /\ kml_files = {}
    /\ sample_distance_km = DefaultSampleDistance
    /\ corridor_height_ft = 1000
    /\ corridor_width_km = 0
    /\ corrector \in CorrectorSettings
    /\ database = EmptyDatabase
    /\ ret = NoCall

(* corrector.correct_kml_file(input_file, output_file): the parsed points,  *)
(* the two airfield elevations, the branches and the corrected points       *)
CorrectKmlFile(points, departure_elevation, arrival_elevation) ==
    /\ ret = NoCall
    /\ LET branches == AnalyzeBranches(corrector, points, departure_elevation, arrival_elevation)
       IN  ret' = [NoCall EXCEPT !.op = "correct_kml_file",
                                 !.value = << [points |-> points,
                                               departure_elevation |-> departure_elevation,
                                               arrival_elevation |-> arrival_elevation,
                                               branches |-> branches,
                                               corrected_points |->
                                                   GenerateCorrectedKmlPoints(points, branches,
                                                       departure_elevation, arrival_elevation)] >>]
    /\ UNCHANGED <<store, spatial_index, corridor_height_ft, corridor_width_km, kml_files,
                   sample_distance_km, corrector, database>>

NextCorrector ==
    \/ \E points \in CorrectorRoutes, departure_elevation \in AirfieldElevations,
          arrival_elevation \in AirfieldElevations :
           CorrectKmlFile(points, departure_elevation, arrival_elevation)
    \/ Return

SpecCorrector == InitCorrector /\ [][NextCorrector]_vars

(***************************************************************************)
(* The importer on its own                                                 *)
(***************************************************************************)
InitImport ==
    /\ store = <<>>
    /\ spatial_index = BuildSpatialIndex(store)
    /\ kml_files = {}
    /\ sample_distance_km = DefaultSampleDistance
    /\ corridor_height_ft = 1000
    /\ corridor_width_km = 0
    /\ corrector = DefaultCorrector
    /\ database = EmptyDatabase
    /\ ret = NoCall

(* AIXMExtractor(xml_path, db_path).extract_complete_data(), as main()      *)
(* runs it; the call keeps the source and the tables it found               *)
ImportAixm(source) ==
    /\ ret = NoCall
    /\ Len(database.airspaces) <= MaxStoredAirspaces
    /\ LET done == ExtractCompleteData(database, source)
       IN  /\ database' = done.database
           /\ ret' = [NoCall EXCEPT !.op = "extract_complete_data", !.raised = done.raised,
                                    !.value = << [source |-> source, before |-> database,
                                                  error_logged |-> done.error_logged] >>]
    /\ UNCHANGED <<store, spatial_index, corridor_height_ft, corridor_width_km, kml_files,
                   sample_distance_km, corrector>>

NextImport ==
    \/ \E source \in ImportSources : ImportAixm(source)
    \/ Return

SpecImport == InitImport /\ [][NextImport]_vars

(***************************************************************************)
(* The importer on files of more than one batch and on a failing store     *)
(***************************************************************************)
NextBatch ==
    \/ \E source \in BatchSources : ImportAixm(source)
    \/ Return

SpecBatch == InitImport /\ [][NextBatch]_vars

(***************************************************************************)
(* The search by name on its own                                           *)
(***************************************************************************)
InitSearch ==
    /\ store = <<>>
    /\ spatial_index = BuildSpatialIndex(store)
    /\ kml_files = {}
    /\ sample_distance_km = DefaultSampleDistance
    /\ corridor_height_ft = 1000
    /\ corridor_width_km = 0
    /\ corrector = DefaultCorrector
    /\ database \in SearchDatabases
    /\ ret = NoCall

(* service.get_airspace_by_name(name_pattern)                               *)
GetAirspaceByName(name_pattern, after_equals) ==
    /\ ret = NoCall
    /\ ret' = [NoCall EXCEPT !.op = "get_airspace_by_name",
                             !.value = << [name_pattern |-> name_pattern,
                                           results |-> AirspacesByName(database, name_pattern,
                                                                       after_equals)] >>]
    /\ UNCHANGED <<store, spatial_index, corridor_height_ft, corridor_width_km, kml_files,
                   sample_distance_km, corrector, database>>

NextSearch ==
    \/ \E name_pattern \in NamePatterns, after_equals \in BOOLEAN :
           GetAirspaceByName(name_pattern, after_equals)
    \/ Return

SpecSearch == InitSearch /\ [][NextSearch]_vars

(***************************************************************************)
(* The listings on their own                                               *)
(***************************************************************************)
InitList == InitWith(ListDeployments)

(* navpro list --profile kml_file --filter-types ...: an exception of the   *)
(* analyzer is caught and printed                                           *)
CmdListProfile(path, filter_types) ==
    /\ ret = NoCall
    /\ ret' = [NoCall EXCEPT !.op = "cmd_list_profile", !.path = path,
                  !.value = << IF path.n = 0 THEN NothingListed
                               ELSE CliListing(store,
                                        ChronologicalCrossings(store, spatial_index, path,
                                            LIST_SAMPLE_DISTANCE, corridor_height_ft,
                                            corridor_width_km),
                                        filter_types) >>]
    /\ UNCHANGED <<store, spatial_index, corridor_height_ft, corridor_width_km, kml_files,
                   sample_distance_km, corrector, database>>

(* the GUI's "List Airspaces": an exception of the analyzer is caught and   *)
(* logged                                                                   *)
RunListAnalysis(path) ==
    /\ ret = NoCall
    /\ ret' = [NoCall EXCEPT !.op = "run_list_analysis", !.path = path,
                  !.value = << IF path.n = 0 THEN NothingListed
                               ELSE GuiListing(store,
                                        ChronologicalCrossings(store, spatial_index, path,
                                            LIST_SAMPLE_DISTANCE, corridor_height_ft,
                                            corridor_width_km)) >>]
    /\ UNCHANGED <<store, spatial_index, corridor_height_ft, corridor_width_km, kml_files,
                   sample_distance_km, corrector, database>>

NextList ==
    \/ \E path \in kml_files, filter_types \in CliFilterTypes : CmdListProfile(path, filter_types)
    \/ \E path \in kml_files : RunListAnalysis(path)
    \/ Return

SpecList == InitList /\ [][NextList]_vars

(* the candidate sets are complete for every flight file of the deployment  *)
NearIsComplete ==
    \A path \in kml_files :
        (ret = NoCall /\ path.n > 0) => NearCoversBox(spatial_index, path, sample_distance_km, corridor_width_km)

(***************************************************************************)
(* What a call returned                                                    *)
(***************************************************************************)
Returned(op) == ret.op = op /\ ret.raised = "none"

CrossingIds == { ret.value[j].airspace_id : j \in 1..Len(ret.value) }

ReturnedIds == { ret.value[j] : j \in 1..Len(ret.value) }

IndexedCount == IF Len(spatial_index.bounding_boxes) = 0 THEN 0 ELSE Len(spatial_index.airspace_ids)

IndexPositionOf(airspace_id) ==
    CHOOSE k \in 1..Len(spatial_index.airspace_ids) : spatial_index.airspace_ids[k] = airspace_id

NominalSample(path, i) == SamplePoint(path, i, sample_distance_km)

NominalCount(path) == SampleCount(path, sample_distance_km)

(* the nominal sample i of the path is returned by the engine for the       *)
(* airspace                                                                 *)
EngineMatchesSample(airspace_id, path, i) ==
    IndexEntryMatches(store, spatial_index, IndexPositionOf(airspace_id),
                      NominalSample(path, i).p, NominalSample(path, i).alt)

(***************************************************************************)
(* The airspace as the stored data describe it: the union of the rings of  *)
(* its borders, from the stored lower limit (the surface when there is     *)
(* none) to the stored upper limit (unlimited when there is none)          *)
(***************************************************************************)
InsideSomeBorder(airspace, p) ==
    \E b \in 1..Len(airspace.borders) :
        /\ Len(BorderVertices(airspace.borders[b])) >= 3
        /\ RingContains(BorderVertices(airspace.borders[b]), p)

StoredLower(row) ==
    IF row.lower_limit_ft = None THEN Feet(0)
    ELSE ConvertAltitudeToFeet(row.lower_limit_ft, row.lower_limit_ref)

StoredUpper(row) ==
    IF row.upper_limit_ft = None THEN Infinity
    ELSE ConvertAltitudeToFeet(row.upper_limit_ft, row.upper_limit_ref)

InsideStoredBand(row, altitude_ft) ==
    /\ StoredLower(row).v * altitude_ft.d <= altitude_ft.n
    /\ (StoredUpper(row).inf \/ altitude_ft.n <= StoredUpper(row).v * altitude_ft.d)

SampleInsideAirspace(airspace_id, sample) ==
    /\ InsideSomeBorder(store[airspace_id], sample.p)
    /\ InsideStoredBand(VerticalRow(store, airspace_id), sample.alt)

(***************************************************************************)
(* C1: the list get_chronological_crossings returns is sorted ascending by *)
(* the index of the first nominal sample inside the airspace, and every    *)
(* actual crossing comes before every corridor-only crossing, for any      *)
(* number of nominal samples.                                              *)
(***************************************************************************)
C1_ChronologicalThenCorridorOnly ==
    Returned("get_chronological_crossings") =>
        \A a, b \in 1..Len(ret.value) :
            a < b =>
                /\ (ret.value[a].is_actual_crossing /\ ret.value[b].is_actual_crossing)
                       => ret.value[a].segment_index <= ret.value[b].segment_index
                /\ ret.value[b].is_actual_crossing => ret.value[a].is_actual_crossing

(***************************************************************************)
(* C2: a returned crossing is actual if and only if at least one sample of *)
(* the nominal path is laterally inside the airspace with its altitude     *)
(* inside the airspace's vertical band, and corridor-only otherwise.       *)
(***************************************************************************)
C2_ActualIffNominalSampleInside ==
    Returned("get_chronological_crossings") =>
        \A j \in 1..Len(ret.value) :
            ret.value[j].is_actual_crossing <=>
                \E i \in 0..(NominalCount(ret.path) - 1) :
                    SampleInsideAirspace(ret.value[j].airspace_id, NominalSample(ret.path, i))

(***************************************************************************)
(* C3: every airspace id appears at most once in the returned list, and    *)
(* the segment_index of an actual crossing is the index of the first       *)
(* nominal sample the engine matched to the airspace.                      *)
(***************************************************************************)
C3_DeduplicatedFirstEntry ==
    Returned("get_chronological_crossings") =>
        /\ \A a, b \in 1..Len(ret.value) :
               ret.value[a].airspace_id = ret.value[b].airspace_id => a = b
        /\ \A j \in 1..Len(ret.value) :
               ret.value[j].is_actual_crossing =>
                   /\ ret.value[j].segment_index \in 0..(NominalCount(ret.path) - 1)
                   /\ EngineMatchesSample(ret.value[j].airspace_id, ret.path,
                                          ret.value[j].segment_index)
                   /\ \A i \in 0..(ret.value[j].segment_index - 1) :
                          ~EngineMatchesSample(ret.value[j].airspace_id, ret.path, i)

(* an airspace entered after the first sample and matched by several        *)
(* nominal samples is returned once                                         *)
C3_SeveralSamplesInside ==
    /\ Returned("get_chronological_crossings")
    /\ \E j \in 1..Len(ret.value) :
           /\ ret.value[j].is_actual_crossing
           /\ ret.value[j].segment_index > 0
           /\ ret.value[j].segment_index + 1 < NominalCount(ret.path)
           /\ EngineMatchesSample(ret.value[j].airspace_id, ret.path,
                                  ret.value[j].segment_index + 1)

(***************************************************************************)
(* C4: an airspace without a stored lower limit value starts at the        *)
(* surface and one without a stored upper limit value is unlimited,        *)
(* whatever the stored reference; with no vertical-limits record at all it *)
(* matches every altitude >= 0 at a point inside its lateral geometry.     *)
(***************************************************************************)
C4_MissingLimitsAreSurfaceAndUnlimited ==
    Returned("query_airspaces_for_point") =>
        \A k \in 1..IndexedCount :
            (/\ BoxHasPoint(spatial_index.bounding_boxes[k], ret.point)
             /\ RingContains(spatial_index.airspace_geometries[k], ret.point))
            => (spatial_index.airspace_ids[k] \in ReturnedIds
                  <=> InsideStoredBand(VerticalRow(store, spatial_index.airspace_ids[k]),
                                       Alt(ret.altitude_ft)))

(***************************************************************************)
(* C5: an airspace that laterally contains the point and has both limits   *)
(* stored with reference FT or FL is returned if and only if               *)
(* lower_ft <= altitude_ft <= upper_ft, both bounds inclusive, where FL n  *)
(* is n * 100 ft and FT n is n ft.                                         *)
(***************************************************************************)
FeetOfLimit(value, reference) == IF reference = "FL" THEN value * 100 ELSE value

HasBothLimits(row) ==
    /\ row.lower_limit_ft # None /\ row.upper_limit_ft # None
    /\ row.lower_limit_ref \in {Some("FT"), Some("FL")}
    /\ row.upper_limit_ref \in {Some("FT"), Some("FL")}

C5_InclusiveBandInFeet ==
    Returned("query_airspaces_for_point") =>
        \A k \in 1..IndexedCount :
            LET row == VerticalRow(store, spatial_index.airspace_ids[k])
            IN  (/\ BoxHasPoint(spatial_index.bounding_boxes[k], ret.point)
                 /\ RingContains(spatial_index.airspace_geometries[k], ret.point)
                 /\ HasBothLimits(row))
                => (spatial_index.airspace_ids[k] \in ReturnedIds
                      <=> /\ FeetOfLimit(row.lower_limit_ft[1], row.lower_limit_ref[1])
                                <= ret.altitude_ft
                          /\ ret.altitude_ft
                                <= FeetOfLimit(row.upper_limit_ft[1], row.upper_limit_ref[1]))

(* an airspace 0 FT to FL 65 returned by a query at exactly 6500 ft         *)
C5_ReturnedAtUpperBound ==
    /\ Returned("query_airspaces_for_point")
    /\ ret.altitude_ft = 6500
    /\ \E id \in ReturnedIds :
           VerticalRow(store, id) = Limits(Some(0), Some("FT"), Some(65), Some("FL"))

(***************************************************************************)
(* C6: an airspace whose only border is a circle (centre and radius, no    *)
(* vertex rows) is indexed as a 32-vertex polygon, and a query at the      *)
(* centre with an altitude inside its band returns it.                     *)
(***************************************************************************)
IsCircleOnly(airspace) ==
    /\ Len(airspace.borders) = 1
    /\ airspace.borders[1].is_circle
    /\ airspace.borders[1].vertices = <<>>
    /\ Len(BorderVertices(airspace.borders[1])) = NUM_POINTS

C6_CircleOnlyIndexedAndFound ==
    \A id \in 1..Len(store) :
        IsCircleOnly(store[id]) =>
            /\ \E k \in 1..Len(spatial_index.airspace_ids) :
                   /\ spatial_index.airspace_ids[k] = id
                   /\ Len(spatial_index.airspace_geometries[k]) = 32
            /\ (/\ Returned("query_airspaces_for_point")
                 /\ ret.point = Pt(store[id].borders[1].circle_center_lon[1],
                                    store[id].borders[1].circle_center_lat[1])
                 /\ AltitudeInRange(Alt(ret.altitude_ft), GetAirspaceData(store, id)))
                => id \in ReturnedIds

(***************************************************************************)
(* C7: for an airspace with two or more borders a point is laterally       *)
(* inside the airspace if and only if it is inside the ring of at least    *)
(* one of its borders.                                                     *)
(***************************************************************************)
C7_BordersAreAUnion ==
    Returned("query_airspaces_for_point") =>
        \A k \in 1..IndexedCount :
            LET id == spatial_index.airspace_ids[k]
            IN  Len(store[id].borders) >= 2 =>
                    (id \in ReturnedIds
                       <=> /\ InsideSomeBorder(store[id], ret.point)
                           /\ AltitudeInRange(Alt(ret.altitude_ft), GetAirspaceData(store, id)))

(***************************************************************************)
(* C8: an airspace that laterally contains a corridor sample and whose     *)
(* vertical band contains that sample's altitude plus or minus the         *)
(* corridor height is reported by get_chronological_crossings.             *)
(***************************************************************************)
C8_CorridorHeightDiscovers ==
    Returned("get_chronological_crossings") =>
        \A k \in 1..IndexedCount :
            \A c \in CorridorNear(ret.path, sample_distance_km, corridor_width_km,
                                  spatial_index.bounding_boxes[k].min_lon,
                                  spatial_index.bounding_boxes[k].max_lon) :
                LET pt == CorridorPoint(ret.path, c, sample_distance_km, corridor_width_km)
                IN  (\E h \in {-corridor_height_ft, 0, corridor_height_ft} :
                        IndexEntryMatches(store, spatial_index, k, pt.p, RatPlus(pt.alt, h)))
                    => spatial_index.airspace_ids[k] \in CrossingIds

(***************************************************************************)
(* C9 as stated: for an empty route or a route with one waypoint           *)
(* get_chronological_crossings returns an empty list and raises nothing.   *)
(***************************************************************************)
C9_ShortRouteReturnsEmpty ==
    (ret.op = "get_chronological_crossings" /\ ret.path.n <= 1) =>
        (ret.raised = "none" /\ ret.value = <<>>)

(***************************************************************************)
(* C9 amended: for an empty route get_chronological_crossings raises       *)
(* ValueError; for a route with one waypoint it raises nothing and returns *)
(* one actual crossing (segment_index 0, distance 0) for each airspace the *)
(* engine returns at that waypoint, and no other entry.                    *)
(***************************************************************************)
C9_ShortRouteRaisesOrQueriesTheWaypoint ==
    ret.op = "get_chronological_crossings" =>
        /\ ret.path.n = 0 => (ret.raised = "ValueError" /\ ret.value = <<>>)
        /\ ret.path.n = 1 =>
               /\ ret.raised = "none"
               /\ [j \in 1..Len(ret.value) |-> ret.value[j].airspace_id]
                      = QueryAirspacesForPoint(store, spatial_index,
                                               WaypointSample(Waypoint(ret.path, 0)).p,
                                               WaypointSample(Waypoint(ret.path, 0)).alt)
               /\ \A j \in 1..Len(ret.value) :
                      /\ ret.value[j].is_actual_crossing
                      /\ ret.value[j].segment_index = 0
                      /\ ret.value[j].total_distance = 0
                      /\ ret.value[j].crossing_point
                            = Some(WaypointSample(Waypoint(ret.path, 0)))

(* a route with one waypoint that lies in an airspace                       *)
C9_SingleWaypointCrossing ==
    /\ Returned("get_chronological_crossings")
    /\ ret.path.n = 1
    /\ ret.value # <<>>

(***************************************************************************)
(* C10: the samples built from a route with at least two waypoints end     *)
(* with the route's final waypoint, interpolated or thinned.               *)
(***************************************************************************)
C10_LastSampleIsFinalWaypoint ==
    (Returned("get_chronological_crossings") /\ ret.path.n >= 2) =>
        NominalSample(ret.path, NominalCount(ret.path) - 1)
            = WaypointSample(Waypoint(ret.path, ret.path.n - 1))

(***************************************************************************)
(* C11: for a route (not a trace) any two consecutive samples of           *)
(* interpolate_flight_path are no more than segment_distance_km apart.     *)
(***************************************************************************)
SampleGap(a, b) == [n |-> Abs(b.p.xn * a.p.d - a.p.xn * b.p.d), d |-> a.p.d * b.p.d]

C11_SamplesAtMostSegmentDistanceApart ==
    (Returned("get_chronological_crossings") /\ ~IsTraceFile(ret.path) /\ ret.path.n >= 2) =>
        \A i \in 0..(InterpolatedCount(ret.path, sample_distance_km) - 2) :
            LET gap == SampleGap(InterpolatedPoint(ret.path, i, sample_distance_km),
                                 InterpolatedPoint(ret.path, i + 1, sample_distance_km))
            IN  gap.n <= sample_distance_km * gap.d

(***************************************************************************)
(* What the corrector returned                                             *)
(***************************************************************************)
Corrected == ret.value[1]

(* the corrected points that carry the name of waypoint k of the file       *)
EmittedAs(k) ==
    { j \in 1..Len(Corrected.corrected_points) :
          Corrected.corrected_points[j].name = WaypointName(k) }

EmittedAt(k, altitude) ==
    /\ EmittedAs(k) # {}
    /\ \A j \in EmittedAs(k) : Corrected.corrected_points[j].altitude = altitude

(* C12: in the corrected profile the first waypoint is at the departure     *)
(* elevation + 1000 ft, the last at the destination elevation + 1000 ft,    *)
(* and every other waypoint of the file is emitted at its own altitude      *)
(* (the change towards it is over when the waypoint is reached).            *)
C12_WaypointsKeepTheirAltitudes ==
    (Returned("correct_kml_file") /\ Len(Corrected.points) >= 2) =>
        LET n == Len(Corrected.points)
        IN  /\ EmittedAt(0, Corrected.departure_elevation + PATTERN_HEIGHT_FT)
            /\ EmittedAt(n - 1, Corrected.arrival_elevation + PATTERN_HEIGHT_FT)
            /\ \A k \in 1..(n - 2) : EmittedAt(k, Corrected.points[k + 1].altitude)

(* the place of waypoint k of the file in the corrected points              *)
EmittedIndex(k) == CHOOSE j \in EmittedAs(k) : TRUE

(* the change of altitude from one corrected point to the next takes no     *)
(* more than the distance between them at the corrector's rates             *)
Flyable(p, q) ==
    LET needed == DistanceNeeded(corrector, q.altitude - p.altitude)
    IN  needed.n * p.pos.d * q.pos.d <= needed.d * Abs(q.pos.n * p.pos.d - p.pos.n * q.pos.d)

FlaggedUnreachable(k) ==
    \E b \in 1..Len(Corrected.branches) :
        /\ Corrected.branches[b].is_unreachable
        /\ Corrected.branches[b].start_point.name = WaypointName(k)
        /\ Corrected.branches[b].end_point.name = WaypointName(k + 1)

CompletedWithin(k) ==
    \A j \in EmittedIndex(k)..(EmittedIndex(k + 1) - 1) :
        Flyable(Corrected.corrected_points[j], Corrected.corrected_points[j + 1])

(* C13: between any two adjacent waypoints of the corrected profile either  *)
(* every change of altitude needs no more than the distance it is given     *)
(* and is over within the branch, or the branch is flagged unreachable;     *)
(* first, intermediate and final branches and two-waypoint routes alike.    *)
C13_ChangeFitsOrBranchIsFlagged ==
    (Returned("correct_kml_file") /\ Len(Corrected.points) >= 2) =>
        \A k \in 0..(Len(Corrected.points) - 2) : CompletedWithin(k) \/ FlaggedUnreachable(k)

(* the altitude reached at the end of a branch that is too short: the       *)
(* start altitude plus the change the branch distance allows                *)
AchievableAltitude(b) ==
    LET rate == IF b.altitude_change > 0 THEN corrector.climb_rate_fpm
                ELSE corrector.descent_rate_fpm
        possible == (b.distance.n * 60 * rate) \div (b.distance.d * corrector.ground_speed_kts)
    IN  IF b.altitude_change > 0 THEN b.start_altitude + Min2(possible, b.altitude_change)
        ELSE b.start_altitude - Min2(possible, 0 - b.altitude_change)

(* the first branch of a route needs at least its whole distance            *)
FirstBranchTooShort ==
    LET diff_ft == Corrected.points[2].altitude
                   - (Corrected.departure_elevation + PATTERN_HEIGHT_FT)
    IN  /\ Abs(diff_ft) > LEVEL_THRESHOLD_FT
        /\ ~FitsWithin(DistanceNeeded(corrector, diff_ft),
                       CalculateDistanceNm(Corrected.points[1], Corrected.points[2]))

(* C14: a climb or descent that needs at least the branch distance makes    *)
(* the branch unreachable, and the waypoint at its end is then at the       *)
(* achievable altitude (1300 + 900 = 2200 ft over 3 NM at 500 fpm and       *)
(* 100 kts), not at the target.                                             *)
C14_UnreachableBranchEndsAtAchievableAltitude ==
    (Returned("correct_kml_file") /\ Len(Corrected.points) >= 3) =>
        /\ FirstBranchTooShort => FlaggedUnreachable(0)
        /\ \A b \in 1..Len(Corrected.branches) :
               LET branch == Corrected.branches[b]
               IN  (branch.is_unreachable /\ branch.end_point.name # WaypointName(Len(Corrected.points) - 1))
                       => EmittedAt(branch.end_point.name.k, AchievableAltitude(branch))

(***************************************************************************)
(* What an import left                                                     *)
(***************************************************************************)
Imported == ret.op = "extract_complete_data"

ImportedSource == ret.value[1].source

DatabaseBefore == ret.value[1].before

RowCounts(db) ==
    << Len(db.airspaces), Len(db.airspace_borders), Len(db.border_vertices),
       Len(db.vertical_limits) >>

(* C15: a second extract_complete_data on the same database with the same   *)
(* source leaves the rows the first one left: none of the earlier import    *)
(* remains beside the new ones.                                             *)
C15_ReimportReplacesTheStore ==
    (Imported /\ DatabaseBefore = ExtractCompleteData(EmptyDatabase, ImportedSource).database)
        => RowCounts(database) = RowCounts(DatabaseBefore)

(* C16: an unrecoverable XML parse error reaches the caller of              *)
(* extract_complete_data as a failure; the call does not return normally.   *)
C16_ParseErrorReachesTheCaller ==
    (Imported /\ ImportedSource.malformed_at > 0) => ret.raised = "MalformedSource"

IsNumericOrAbsent(value) == value = None \/ value[1].numeric

(* C17: every vertical limit value the importer stored is numeric or        *)
(* absent (an Ase with a non-numeric value is skipped).                     *)
C17_StoredLimitsAreNumeric ==
    Imported =>
        \A r \in 1..Len(database.vertical_limits) :
            /\ IsNumericOrAbsent(database.vertical_limits[r].lower_limit_ft)
            /\ IsNumericOrAbsent(database.vertical_limits[r].upper_limit_ft)

(* the Abd elements of a well-formed source that name an Ase of the source  *)
NamesAnAirspace(elements, elem) ==
    /\ elem.tag = "Abd"
    /\ elem.codeId # None
    /\ \E a \in 1..Len(elements) :
           elements[a].tag = "Ase" /\ elements[a].codeId = elem.codeId

KnownAbd(source) ==
    IF source.malformed_at > 0 THEN <<>>
    ELSE LET Known(elem) == NamesAnAirspace(source.elements, elem)
         IN  SelectSeq(source.elements, Known)

NewBorders ==
    SubSeq(database.airspace_borders, Len(DatabaseBefore.airspace_borders) + 1,
           Len(database.airspace_borders))

NewVertices ==
    SubSeq(database.border_vertices, Len(DatabaseBefore.border_vertices) + 1,
           Len(database.border_vertices))

(* C18: an Abd whose codeId is not in the map leaves no border and no       *)
(* vertex, the Abd after it are still processed, and every border stored    *)
(* references an airspace that pass 1 of the import created.                *)
C18_BordersReferencePass1Airspaces ==
    Imported =>
        /\ Len(NewBorders) = Len(KnownAbd(ImportedSource))
        /\ \A j \in 1..Len(NewBorders) :
               /\ NewBorders[j].airspace_id > Len(DatabaseBefore.airspaces)
               /\ NewBorders[j].airspace_id <= Len(database.airspaces)
               /\ database.airspaces[NewBorders[j].airspace_id].code_id
                      = KnownAbd(ImportedSource)[j].codeId[1]
        /\ \A v \in 1..Len(NewVertices) :
               \E j \in 1..Len(NewBorders) : NewBorders[j].id = NewVertices[v].border_id

(* an import whose source has an Abd of an unknown airspace before an Abd   *)
(* of a known one, and which stored a border with vertices                  *)
C18_UnknownAbdBeforeKnownAbd ==
    /\ Imported
    /\ ImportedSource.malformed_at = 0
    /\ \E k, l \in 1..Len(ImportedSource.elements) :
           /\ k < l
           /\ ImportedSource.elements[k].tag = "Abd"
           /\ ImportedSource.elements[k].codeId # None
           /\ ~NamesAnAirspace(ImportedSource.elements, ImportedSource.elements[k])
           /\ NamesAnAirspace(ImportedSource.elements, ImportedSource.elements[l])
    /\ Len(NewBorders) > 0
    /\ Len(NewVertices) > 0

(***************************************************************************)
(* What a search returned                                                  *)
(***************************************************************************)
Found == ret.value[1].results

HasKnownClass(row) == row.airspace_class # None /\ row.airspace_class # Some("UNKNOWN")

Candidates == MatchingRows(database, ret.value[1].name_pattern)

(* C19: get_airspace_by_name returns at most one airspace for a name,       *)
(* code_type, lower limit and upper limit, and one of known class when a    *)
(* row of that combination has a known class.                               *)
C19_OnePerCombinationKnownClassFirst ==
    Returned("get_airspace_by_name") =>
        /\ \A i, j \in 1..Len(Found) :
               CombinationOf(Found[i]) = CombinationOf(Found[j]) => i = j
        /\ \A r \in 1..Len(Candidates) :
               \E i \in 1..Len(Found) :
                   /\ CombinationOf(Found[i]) = CombinationOf(Candidates[r])
                   /\ HasKnownClass(Candidates[r]) => HasKnownClass(Found[i])

(* a search for which a row of unknown class comes in the tables before a   *)
(* row of known class with the same combination                             *)
C19_UnknownStoredBeforeKnown ==
    /\ Returned("get_airspace_by_name")
    /\ \E r, q \in 1..Len(Candidates) :
           /\ r < q
           /\ CombinationOf(Candidates[r]) = CombinationOf(Candidates[q])
           /\ ~HasKnownClass(Candidates[r])
           /\ HasKnownClass(Candidates[q])
    /\ Len(Found) < Len(Candidates)

(***************************************************************************)
(* What a listing displayed                                                *)
(***************************************************************************)
IsListing == ret.op \in {"cmd_list_profile", "run_list_analysis"}

Listed == ret.value[1].listed

(* C20: a listed crossing counts as a critical-airspace warning exactly     *)
(* when the airspace has type R or P or class A and the crossing is an      *)
(* actual one; a corridor-only crossing never does, in the command line     *)
(* listing and in the GUI listing alike.                                    *)
C20_WarningIffCriticalAndActual ==
    IsListing =>
        /\ \A i \in 1..Len(Listed) :
               Listed[i].is_red_zone <=> (IsCriticalAirspace(store[Listed[i].airspace_id])
                                          /\ Listed[i].is_actual_crossing)
        /\ ret.value[1].red_zone_count
               = Cardinality({ i \in 1..Len(Listed) :
                                   IsCriticalAirspace(store[Listed[i].airspace_id])
                                   /\ Listed[i].is_actual_crossing })

(***************************************************************************)
(* The spatial index                                                       *)
(***************************************************************************)
VertexInBox(box, vertex) ==
    /\ box.min_lon <= vertex[1]
    /\ vertex[1] <= box.max_lon
    /\ box.min_lat <= vertex[2]
    /\ vertex[2] <= box.max_lat

(* C21: every vertex of the ring kept for an indexed airspace lies within   *)
(* the bounding box kept for it, so the boxes never discard a point the     *)
(* ring contains; bounding_boxes and airspace_ids have the same length and  *)
(* no airspace id is there twice.                                           *)
C21_RingsLieWithinTheirBoxes ==
    /\ Len(spatial_index.bounding_boxes) = Len(spatial_index.airspace_ids)
    /\ Len(spatial_index.airspace_geometries) = Len(spatial_index.airspace_ids)
    /\ \A k, l \in 1..Len(spatial_index.airspace_ids) :
           spatial_index.airspace_ids[k] = spatial_index.airspace_ids[l] => k = l
    /\ \A k \in 1..Len(spatial_index.airspace_ids) :
           /\ \A v \in 1..Len(spatial_index.airspace_geometries[k]) :
                  VertexInBox(spatial_index.bounding_boxes[k],
                              spatial_index.airspace_geometries[k][v])
           /\ (Returned("query_airspaces_for_point")
               /\ RingContains(spatial_index.airspace_geometries[k], ret.point))
                  => BoxHasPoint(spatial_index.bounding_boxes[k], ret.point)

(* a query for a point inside the ring of one of several indexed airspaces  *)
C21_QueryInsideAnIndexedRing ==
    /\ Returned("query_airspaces_for_point")
    /\ Len(spatial_index.airspace_ids) >= 2
    /\ \E k \in 1..Len(spatial_index.airspace_ids) :
           RingContains(spatial_index.airspace_geometries[k], ret.point)

AllStoredVertices(border) ==
    LET rows == OrderBySequenceNumber(border.vertices)
    IN  [i \in 1..Len(rows) |-> <<rows[i].longitude, rows[i].latitude>>]

(* C22: the ring built for an airspace with one Polygon border is made of   *)
(* every stored vertex of that border in ascending sequence_number, none    *)
(* omitted, for every stored latitude and longitude value including 0.0.    *)
C22_PolygonRingHasEveryStoredVertex ==
    \A k \in 1..Len(spatial_index.airspace_ids) :
        LET airspace == store[spatial_index.airspace_ids[k]]
        IN  (Len(airspace.borders) = 1 /\ ~airspace.borders[1].is_circle)
                => spatial_index.airspace_geometries[k]
                       = AllStoredVertices(airspace.borders[1])

(***************************************************************************)
(* Distances of the crossings                                              *)
(***************************************************************************)
(* distance_km of the crossing = total_distance * num / den                 *)
DistanceIs(crossing, num, den) ==
    \/ crossing.total_distance = 0
    \/ crossing.flight_progress.num * den = num * crossing.flight_progress.den

(* both crossings come from one call and share its total_distance           *)
DistanceAtMost(a, b) ==
    \/ a.total_distance = 0
    \/ /\ a.total_distance = b.total_distance
       /\ a.flight_progress.num * b.flight_progress.den
              <= b.flight_progress.num * a.flight_progress.den

(* C23: an actual crossing first seen at nominal sample i of N (N >= 2) is  *)
(* reported at distance total_distance * i / (N - 1): 0 at sample 0, the    *)
(* total route distance at the last sample; the distances of the actual     *)
(* crossings never decrease in output order.                                *)
C23_DistanceIsShareOfRouteLength ==
    (Returned("get_chronological_crossings") /\ NominalCount(ret.path) >= 2) =>
        /\ \A j \in 1..Len(ret.value) :
               ret.value[j].is_actual_crossing =>
                   DistanceIs(ret.value[j], ret.value[j].segment_index,
                              NominalCount(ret.path) - 1)
        /\ \A a, b \in 1..Len(ret.value) :
               (a < b /\ ret.value[a].is_actual_crossing /\ ret.value[b].is_actual_crossing)
                   => DistanceAtMost(ret.value[a], ret.value[b])

(***************************************************************************)
(* Thinning of a dense trace                                               *)
(***************************************************************************)
CeilDiv(a, b) == (a + b - 1) \div b

(* C24: of a trace of N > 50 points the analysis keeps every                *)
(* ceil(N / 1000)-th point starting with the first, so that it never        *)
(* analyses more than 1000 samples.                                         *)
C24_TraceThinnedToAThousand ==
    (Returned("get_chronological_crossings") /\ ret.path.n > TRACE_THRESHOLD) =>
        /\ NominalCount(ret.path) <= TRACE_TARGET_POINTS
        /\ NominalCount(ret.path)
               = CeilDiv(ret.path.n, CeilDiv(ret.path.n, TRACE_TARGET_POINTS))
        /\ \A i \in {0, NominalCount(ret.path) - 1} :
               NominalSample(ret.path, i)
                   = WaypointSample(Waypoint(ret.path,
                                             i * CeilDiv(ret.path.n, TRACE_TARGET_POINTS)))

(***************************************************************************)
(* Altitudes of the interpolated samples                                   *)
(***************************************************************************)
RatIs(a, num, den) == a.n * den = num * a.d

(* the altitude a segment from alt1 to alt2 has at ratio j / num_segments   *)
ProfiledAltitudeIs(a, alt1, alt2, j, num_segments) ==
    IF Abs(alt2 - alt1) > 800
    THEN IF 10 * j < 3 * num_segments
         THEN RatIs(a, alt1 * 3 * num_segments + 10 * j * (alt2 - alt1), 3 * num_segments)
         ELSE RatIs(a, alt2, 1)
    ELSE RatIs(a, alt1 * num_segments + j * (alt2 - alt1), num_segments)

(* C25: every interpolated segment whose altitudes differ by more than      *)
(* 800 ft is a step, wherever it is in the route (first, middle or last):   *)
(* at ratio r < 0.3 the altitude is alt1 + (r / 0.3) * (alt2 - alt1) and    *)
(* from r = 0.3 on it is alt2; a segment of 800 ft or less is linear.       *)
C25_LargeChangeIsAStepInEverySegment ==
    (Returned("get_chronological_crossings") /\ ~IsTraceFile(ret.path) /\ ret.path.n >= 2) =>
        \A k \in 0..(ret.path.n - 2) :
            \A j \in 1..(SegmentPoints(ret.path, k, sample_distance_km) - 1) :
                ProfiledAltitudeIs(
                    NominalSample(ret.path, PointsBefore(ret.path, k, sample_distance_km) + j).alt,
                    Waypoint(ret.path, k).alt, Waypoint(ret.path, k + 1).alt,
                    j, SegmentPoints(ret.path, k, sample_distance_km))

(***************************************************************************)
(* Classification of a branch                                              *)
(***************************************************************************)
(* the change the first branch is classified by                             *)
FirstChange == Corrected.points[2].altitude - (Corrected.departure_elevation + PATTERN_HEIGHT_FT)

(* the change the final branch of a route of three or more points is        *)
(* classified by                                                            *)
FinalChange ==
    (Corrected.arrival_elevation + PATTERN_HEIGHT_FT)
        - Corrected.points[Len(Corrected.points) - 1].altitude

LevelIffBelowThreshold(branch, diff_ft) ==
    /\ branch.action = "LEVEL" <=> Abs(diff_ft) < LEVEL_THRESHOLD_FT
    /\ branch.action = "CLIMB" <=> diff_ft >= LEVEL_THRESHOLD_FT
    /\ branch.action = "DESCENT" <=> diff_ft <= 0 - LEVEL_THRESHOLD_FT

(* C26: a change of altitude is classified LEVEL if and only if             *)
(* |dH| < 50 ft; a change of exactly 50 ft is a CLIMB (dH > 0) or a         *)
(* DESCENT (dH < 0).                                                        *)
C26_LevelIffChangeBelowFiftyFeet ==
    (Returned("correct_kml_file") /\ Len(Corrected.points) >= 2) =>
        /\ LevelIffBelowThreshold(Corrected.branches[1], FirstChange)
        /\ Len(Corrected.points) >= 3 =>
               LevelIffBelowThreshold(Corrected.branches[Len(Corrected.branches)], FinalChange)

(***************************************************************************)
(* The final branch                                                        *)
(***************************************************************************)
(* the altitude the flight has when it enters the final branch              *)
CruiseAtFinalBranch ==
    IF Len(Corrected.points) = 2 THEN Corrected.departure_elevation + PATTERN_HEIGHT_FT
    ELSE Corrected.points[Len(Corrected.points) - 1].altitude

FinalDescent == (Corrected.arrival_elevation + PATTERN_HEIGHT_FT) - CruiseAtFinalBranch

FinalBranchDistance ==
    CalculateDistanceNm(Corrected.points[Len(Corrected.points) - 1],
                        Corrected.points[Len(Corrected.points)])

(* the final change of altitude is significant and needs less than the      *)
(* distance of the final branch                                             *)
FinalDescentFits ==
    /\ Abs(FinalDescent) > LEVEL_THRESHOLD_FT
    /\ FitsWithin(DistanceNeeded(corrector, FinalDescent), FinalBranchDistance)

(* the position is (branch distance - required distance) after the start    *)
(* of the final branch                                                      *)
AtDescentStart(pos) ==
    LET needed == DistanceNeeded(corrector, FinalDescent)
        from == Corrected.points[Len(Corrected.points) - 1].pos.n
    IN  (pos.n - from * pos.d) * needed.d
            = (FinalBranchDistance * needed.d - needed.n) * pos.d

(* C27: on the final branch, when the required descent distance is less     *)
(* than the branch distance, the flight is level at the current cruise      *)
(* altitude from the branch start to a descent-start point at               *)
(* (branch distance - required distance) from the branch start, and         *)
(* descends from that point to the destination elevation + 1000 ft at the   *)
(* last waypoint.                                                           *)
C27_FinalDescentStartsAtRequiredDistance ==
    (Returned("correct_kml_file") /\ Len(Corrected.points) >= 2 /\ FinalDescentFits) =>
        LET nb == Len(Corrected.branches)
            np == Len(Corrected.corrected_points)
            last == Corrected.points[Len(Corrected.points)]
        IN  /\ nb >= 2
            /\ np >= 3
            /\ Corrected.branches[nb - 1].action = "LEVEL"
            /\ Corrected.branches[nb - 1].start_point.name
                   = WaypointName(Len(Corrected.points) - 2)
            /\ Corrected.branches[nb - 1].target_altitude = CruiseAtFinalBranch
            /\ AtDescentStart(Corrected.branches[nb - 1].end_point.pos)
            /\ Corrected.branches[nb].start_point = Corrected.branches[nb - 1].end_point
            /\ Corrected.branches[nb].end_point = last
            /\ Corrected.branches[nb].action = ActionOf(FinalDescent)
            /\ Corrected.branches[nb].target_altitude
                   = Corrected.arrival_elevation + PATTERN_HEIGHT_FT
            /\ AtDescentStart(Corrected.corrected_points[np - 1].pos)
            /\ Corrected.corrected_points[np - 1].altitude = CruiseAtFinalBranch
            /\ Corrected.corrected_points[np].pos = last.pos
            /\ Corrected.corrected_points[np].altitude
                   = Corrected.arrival_elevation + PATTERN_HEIGHT_FT

(***************************************************************************)
(* Order of the corrected points                                           *)
(***************************************************************************)
(* p is not further along the route than q (the routes run towards          *)
(* growing positions)                                                       *)
NotBeyond(p, q) == p.pos.n * q.pos.d <= q.pos.n * p.pos.d

(* C29: the corrected points are emitted in route order: the distance from  *)
(* the departure along the route never decreases through the output.  In    *)
(* particular the end-of-change point of the change that starts at the      *)
(* penultimate waypoint is never beyond the descent-start point of the      *)
(* final descent.                                                           *)
C29_CorrectedPointsInRouteOrder ==
    Returned("correct_kml_file") =>
        \A j \in 1..(Len(Corrected.corrected_points) - 1) :
            NotBeyond(Corrected.corrected_points[j], Corrected.corrected_points[j + 1])

(***************************************************************************)
(* Ase elements that share a codeId                                        *)
(***************************************************************************)
HasUid(elem) == elem.tag = "Ase" /\ elem.codeId # None

(* the id of the airspaces row pass 1 created from element k of the source  *)
AirspaceIdOfElement(k) ==
    Len(DatabaseBefore.airspaces)
        + Cardinality({ j \in 1..k : HasUid(ImportedSource.elements[j]) })

IsLastOfItsCode(k) ==
    \A l \in (k + 1)..Len(ImportedSource.elements) :
        HasUid(ImportedSource.elements[l])
            => ImportedSource.elements[l].codeId # ImportedSource.elements[k].codeId

AbdReferencing(codeId) ==
    { l \in 1..Len(ImportedSource.elements) :
          ImportedSource.elements[l].tag = "Abd" /\ ImportedSource.elements[l].codeId = codeId }

NewBordersOf(airspace_id) ==
    { j \in 1..Len(NewBorders) : NewBorders[j].airspace_id = airspace_id }

(* C28: when two or more Ase of the source share a codeId, every Abd that   *)
(* references the codeId is attached to the airspace created from the last  *)
(* such Ase in document order; the airspaces created from the earlier ones  *)
(* receive no border.                                                       *)
C28_BordersGoToLastAseOfTheCode ==
    (Imported /\ ImportedSource.malformed_at = 0) =>
        \A k \in 1..Len(ImportedSource.elements) :
            HasUid(ImportedSource.elements[k]) =>
                Cardinality(NewBordersOf(AirspaceIdOfElement(k)))
                    = IF IsLastOfItsCode(k)
                      THEN Cardinality(AbdReferencing(ImportedSource.elements[k].codeId))
                      ELSE 0

(* an import of a source with two Ase of one codeId, the first followed by  *)
(* an Abd of the codeId, which stored two borders for the second            *)
C28_TwoAseShareACode ==
    /\ Imported
    /\ ImportedSource.malformed_at = 0
    /\ \E k, l \in 1..Len(ImportedSource.elements) :
           /\ k < l
           /\ HasUid(ImportedSource.elements[k])
           /\ HasUid(ImportedSource.elements[l])
           /\ ImportedSource.elements[k].codeId = ImportedSource.elements[l].codeId
           /\ \E a \in AbdReferencing(ImportedSource.elements[k].codeId) : a < l
           /\ Cardinality(NewBordersOf(AirspaceIdOfElement(l))) = 2
           /\ NewBordersOf(AirspaceIdOfElement(k)) = {}

(***************************************************************************)
(* Batches of the import                                                   *)
(***************************************************************************)
NewAirspaces ==
    SubSeq(database.airspaces, Len(DatabaseBefore.airspaces) + 1, Len(database.airspaces))

(* the number of elements with the tag among the first k of the source      *)
TagCountUpTo(tag, k) ==
    Cardinality({ j \in 1..k : ImportedSource.elements[j].tag = tag })

(* the rank before which pass 1, and pass 2, stopped                        *)
PassOneEnd ==
    IF ImportedSource.malformed_at > 0 THEN ImportedSource.malformed_at - 1
    ELSE Len(ImportedSource.elements)

PassTwoEnd ==
    IF ImportedSource.malformed_at > 0 THEN 0
    ELSE IF ImportedSource.insert_fails_at > 0 THEN ImportedSource.insert_fails_at - 1
    ELSE Len(ImportedSource.elements)

(* the number of elements of a pass that were committed: all of them when   *)
(* the pass ended, whole batches of COMMIT_EVERY when it was aborted        *)
CommittedCount(tag, end, aborted) ==
    IF aborted THEN COMMIT_EVERY * (TagCountUpTo(tag, end) \div COMMIT_EVERY)
    ELSE TagCountUpTo(tag, end)

(* the Ase with a uid, and the Abd of an airspace of the source, that a     *)
(* pass read before it stopped, and those of them that were committed       *)
ReadAse == { k \in 1..PassOneEnd : HasUid(ImportedSource.elements[k]) }

ReadAbd ==
    { k \in 1..PassTwoEnd :
          NamesAnAirspace(ImportedSource.elements, ImportedSource.elements[k]) }

CommittedAse ==
    { k \in ReadAse : TagCountUpTo("Ase", k) <= CommittedCount("Ase", PassOneEnd, ImportedSource.malformed_at > 0) }

CommittedAbd ==
    { k \in ReadAbd :
          TagCountUpTo("Abd", k)
              <= CommittedCount("Abd", PassTwoEnd, ImportedSource.insert_fails_at > 0) }

RankIn(ranks, k) == Cardinality({ j \in ranks : j <= k })

(* C30: the import commits after every 1000 Ase elements of pass 1, after   *)
(* every 1000 Abd elements of pass 2 and at the end of each pass, so fewer  *)
(* than 1000 elements' rows are lost when it aborts: the rows of every      *)
(* batch committed before the failure remain, all of pass 1 when pass 2     *)
(* fails, and only the uncommitted tail is rolled back.                     *)
C30_CommittedBatchesSurviveAnAbort ==
    Imported =>
        /\ Len(NewAirspaces) = Cardinality(CommittedAse)
        /\ \A k \in CommittedAse :
               NewAirspaces[RankIn(CommittedAse, k)].code_id
                   = ImportedSource.elements[k].codeId[1]
        /\ Len(NewBorders) = Cardinality(CommittedAbd)
        /\ \A k \in CommittedAbd :
               database.airspaces[NewBorders[RankIn(CommittedAbd, k)].airspace_id].code_id
                   = ImportedSource.elements[k].codeId[1]
        /\ \A v \in 1..Len(NewVertices) :
               \E j \in 1..Len(NewBorders) : NewBorders[j].id = NewVertices[v].border_id
        /\ Cardinality(ReadAse) - Len(NewAirspaces) < COMMIT_EVERY
        /\ Cardinality(ReadAbd) - Len(NewBorders) < COMMIT_EVERY
        /\ ImportedSource.malformed_at = 0 => Len(NewAirspaces) = Cardinality(ReadAse)

(* an import that failed in pass 2 after a commit of 1000 Abd elements:     *)
(* the border of the batch and the airspaces of pass 1 are there, the       *)
(* border inserted after the commit is not                                  *)
C30_AbortAfterACommittedBatch ==
    /\ Imported
    /\ ImportedSource.insert_fails_at > 0
    /\ TagCountUpTo("Abd", PassTwoEnd) > COMMIT_EVERY
    /\ Len(NewAirspaces) > 0
    /\ Len(NewBorders) > 0
    /\ Len(NewVertices) > 0
    /\ Len(NewBorders) < Cardinality(ReadAbd)
====
